---- MODULE Spec2Model ----
(***************************************************************************)
(* Model of the Tab-Content-Extractor YouTube transcript summarizer:       *)
(* the element locator and visibility predicate, the transcript reveal     *)
(* state machine (getTranscript_async), the transcript parser and          *)
(* assembler, and the application start-up that calls them.                *)
(*                                                                         *)
(* Strings whose characters matter (element text, timestamps, the video    *)
(* id) are sequences of one-character strings; strings compared only as a  *)
(* whole (tag names, aria labels, element ids) are TLA+ strings.           *)
(***************************************************************************)
EXTENDS Integers, Sequences, FiniteSets, TLC

VARIABLES
    dom,            \* the page: node id -> element record
    dom0,           \* history: the page when the acquisition was called
    segments,       \* the ytd-transcript-segment-renderer elements, in document order
    href,           \* location.href
    removeThrows,   \* whether chatContainer.remove() throws on this page
    pc,             \* position of getTranscript_async
    log,            \* history: operations performed on the page, in order
    result,         \* outcome of getTranscript_async
    pageChanges,    \* number of changes the page made by itself during settle waits
    appPc,          \* position of initializeApplication
    inputValue,     \* inputTextArea.value
    dialog,         \* which blocking dialog is shown
    appError,       \* the error initializeApplication's promise rejected with
    call,           \* the last direct call of a library function and what it gave
    listening,      \* whether the input and change listeners are registered
    timeout,        \* the variable timeout of initializeApplication: a timer id
    timers,         \* the ids of the debounce timers that are pending
    scheduled,      \* number of timers set so far
    runs,           \* timer id -> the run its callback started
    output,         \* output.textContent
    act,            \* one handleAction of the tab popup and its callbacks
    nav             \* the tabs of the window and the popup set for the action

vars == <<dom, dom0, segments, href, removeThrows, pc, log, result, pageChanges,
          appPc, inputValue, dialog, appError, call,
          listening, timeout, timers, scheduled, runs, output, act, nav>>

\* the tab popup (popup.js)
extVars == <<act, nav>>
\* what the acquisition reads and never writes
inputVars == <<dom0, segments, href, removeThrows>>
\* initializeApplication
appVars == <<appPc, inputValue, dialog, appError>>
\* getTranscript_async and the page
acqVars == <<dom, pc, log, result, pageChanges>>
\* scheduleSummarization and the runs it starts
schedVars == <<listening, timeout, timers, scheduled, runs, output>>

----------------------------------------------------------------------------
(* Bounds of the model *)

\* number of style changes the page may make by itself during one acquisition
MaxPageChanges == 1
\* longest transcript (number of segment elements) of the assembler family
MaxEntries == 7
\* longest transcript of the family with varied timestamps and texts
MaxVaried == 2
\* longest timestamp label made of digits and colons
MaxLabelLen == 7
\* the largest word budget of a chunk that is looked at
MaxBudget == 2
\* number of input and change events of one session of the popup
MaxEvents == 2
\* the deepest chain of nested elements
MaxDepth == 3
\* the longest timestamp label with characters other than digits and colons
MaxOddLabelLen == 4
MaxLines == 2
\* number of tabs of the current window
MaxTabs == 3
\* number of tab-activated and tab-update-complete events
MaxTabEvents == 3

(* Program constants *)

MAX_EMPTY_CONTIGUOUS_TRANSCRIPT_LINES == 5

ARIA_LABEL_TRANSCRIPT_BUTTON == "Show transcript"

----------------------------------------------------------------------------
(* Values *)

\* JavaScript null / a missing attribute
Null == "<null>"
\* no node
NoNode == 0

\* a thrown Error, by the place that throws it
Throw(e) == [kind |-> "throw", err |-> e, value |-> NoNode]
Return(v) == [kind |-> "return", err |-> "", value |-> v]

----------------------------------------------------------------------------
(* The page *)

TagButton == "button"
TagExpand == "tp-yt-paper-button"
TagPanel == "ytd-engagement-panel-section-list-renderer"
TagDiv == "div"
IdChat == "chat-container"
TextMore == <<".", ".", ".", "m", "o", "r", "e">>
TextLess == <<"l", "e", "s", "s">>

Nodes == 1..7

\* String.prototype.toLowerCase on the aria labels of the model
ToLowerCase(s) ==
    CASE s = "Show transcript" -> "show transcript"
      [] s = "SHOW TRANSCRIPT" -> "show transcript"
      [] s = "Share" -> "share"
      [] OTHER -> s

\* String.prototype.trim on a character sequence
IsSpace(c) == c = " " \/ c = "\n"

RECURSIVE TrimStart(_)
TrimStart(s) ==
    IF s = <<>> THEN s
    ELSE IF IsSpace(Head(s)) THEN TrimStart(Tail(s)) ELSE s

RECURSIVE TrimEnd(_)
TrimEnd(s) ==
    IF s = <<>> THEN s
    ELSE IF IsSpace(s[Len(s)]) THEN TrimEnd(SubSeq(s, 1, Len(s) - 1)) ELSE s

Trim(s) == TrimEnd(TrimStart(s))

Element(tag, id, aria, text, parent, display, visibility, opacity, attached) ==
    [tag |-> tag, id |-> id, aria |-> aria, text |-> text, parent |-> parent,
     display |-> display, visibility |-> visibility, opacity |-> opacity,
     attached |-> attached]

\* whether the node is in the document: neither it nor an ancestor was removed
RECURSIVE InDocument(_, _)
InDocument(d, n) ==
    /\ d[n].attached
    /\ IF d[n].parent = NoNode THEN TRUE ELSE InDocument(d, d[n].parent)

\* the nodes of a NodeList as an array, in document order (node ids are in
\* document order)
RECURSIVE SetToSeq(_)
SetToSeq(S) ==
    IF S = {} THEN <<>>
    ELSE LET first == CHOOSE n \in S : \A m \in S : n <= m
         IN <<first>> \o SetToSeq(S \ {first})

\* document.querySelectorAll(tag) / getElementsByTagName(tag)
QuerySelectorAll(d, tag) ==
    SetToSeq({n \in Nodes : InDocument(d, n) /\ d[n].tag = tag})

\* document.getElementById(id)
GetElementById(d, id) ==
    LET found == {n \in Nodes : InDocument(d, n) /\ d[n].id = id}
    IN IF found = {} THEN NoNode ELSE CHOOSE n \in found : \A m \in found : n <= m

\* the style test of isElementVisible
StyleHides(e) ==
    e.display = "none" \/ e.visibility = "hidden" \/ e.opacity = "0"

\* the ancestor loop of isElementVisible
RECURSIVE AncestorHides(_, _)
AncestorHides(d, p) ==
    IF p = NoNode THEN FALSE
    ELSE IF StyleHides(d[p]) THEN TRUE
    ELSE AncestorHides(d, d[p].parent)

\* mutant: the ancestors are not looked at
isElementVisibleOwnStyleOnly(d, n) ==
    IF n = NoNode THEN FALSE ELSE ~StyleHides(d[n])

\* mutant: of the ancestors only the parent is looked at
isElementVisibleParentOnly(d, n) ==
    IF n = NoNode THEN FALSE
    ELSE IF StyleHides(d[n]) THEN FALSE
    ELSE IF d[n].parent = NoNode THEN TRUE
    ELSE ~StyleHides(d[d[n].parent])

isElementVisible(d, n) ==
    IF n = NoNode THEN FALSE
    ELSE IF StyleHides(d[n]) THEN FALSE
    ELSE ~AncestorHides(d, d[n].parent)

\* Array.from(buttons).filter(...): the buttons that pass the test, in order
matchingButtons(d, labelText) ==
    LET Test(n) == d[n].aria = labelText /\ isElementVisible(d, n)
    IN SelectSeq(QuerySelectorAll(d, TagButton), Test)

\* mutant: among several matches the first is returned
findButtonByAriaLabelFirstMatch(d, labelText) ==
    IF labelText = "" THEN Throw("findButtonByAriaLabel: empty labelText")
    ELSE LET m == matchingButtons(d, labelText)
         IN Return(IF Len(m) >= 1 THEN m[1] ELSE NoNode)

findButtonByAriaLabel(d, labelText) ==
    IF labelText = "" THEN Throw("findButtonByAriaLabel: empty labelText")
    ELSE LET m == matchingButtons(d, labelText)
         IN IF Len(m) > 1 THEN Throw("findButtonByAriaLabel: more than one")
            ELSE Return(IF Len(m) = 1 THEN m[1] ELSE NoNode)

\* mutant: hidden elements match too
findElementByTagNameAndTextHiddenToo(d, tagName, theText) ==
    LET Test(n) == Trim(d[n].text) = theText
    IN Return(SelectSeq(QuerySelectorAll(d, tagName), Test))

\* findElementByTagNameAndText: value is the array of matches, <<>> standing for null
findElementByTagNameAndText(d, tagName, theText) ==
    IF tagName = "" THEN Throw("findElementByTagNameAndText: empty tagName")
    ELSE IF theText = <<>> THEN Throw("findElementByTagNameAndText: empty theText")
    ELSE LET Test(n) == Trim(d[n].text) = theText /\ isElementVisible(d, n)
         IN Return(SelectSeq(QuerySelectorAll(d, tagName), Test))

\* removeChatContainer: whether the element was found and removed, and the page after
removeChatContainer(d) ==
    LET chatContainer == GetElementById(d, IdChat)
    IN IF chatContainer = NoNode THEN [removed |-> FALSE, dom |-> d]
       ELSE IF removeThrows THEN [removed |-> FALSE, dom |-> d]
       ELSE [removed |-> TRUE,
             dom |-> [d EXCEPT ![chatContainer].attached = FALSE]]

\* node.children
Children(d, n) == {c \in Nodes : d[c].attached /\ d[c].parent = n}

\* recursiveSearch of showTranscriptDiv
RECURSIVE recursiveSearch(_, _)
recursiveSearch(d, n) ==
    \/ d[n].aria # Null /\ d[n].aria # "" /\ ToLowerCase(d[n].aria) = "show transcript"
    \/ \E c \in Children(d, n) : recursiveSearch(d, c)

\* the engagement panels showTranscriptDiv changes
PanelsToShow(d) ==
    {n \in Nodes : InDocument(d, n) /\ d[n].tag = TagPanel /\ recursiveSearch(d, n)}

\* mutant: every engagement panel is shown, whatever it contains
showTranscriptDivEveryPanel(d) ==
    LET panels == {n \in Nodes : InDocument(d, n) /\ d[n].tag = TagPanel}
    IN [count |-> Cardinality(panels),
        dom |-> [n \in Nodes |->
                    IF n \in panels THEN [d[n] EXCEPT !.display = "block"] ELSE d[n]]]

\* showTranscriptDiv: the count it returns (0 standing for null) and the page after
showTranscriptDiv(d) ==
    [count |-> Cardinality(PanelsToShow(d)),
     dom |-> [n \in Nodes |->
                 IF n \in PanelsToShow(d) THEN [d[n] EXCEPT !.display = "block"]
                 ELSE d[n]]]

----------------------------------------------------------------------------
(* Timestamps *)

Digits == <<"0", "1", "2", "3", "4", "5", "6", "7", "8", "9">>
IsDigit(c) == \E i \in 1..10 : Digits[i] = c
DigitValue(c) == (CHOOSE i \in 1..10 : Digits[i] = c) - 1

\* String.prototype.split(':')
RECURSIVE SplitFrom(_, _, _)
SplitFrom(s, i, piece) ==
    IF i > Len(s) THEN <<piece>>
    ELSE IF s[i] = ":" THEN <<piece>> \o SplitFrom(s, i + 1, <<>>)
    ELSE SplitFrom(s, i + 1, Append(piece, s[i]))

Split(s) == SplitFrom(s, 1, <<>>)

\* the value of the longest prefix of decimal digits, and how many digits it has
RECURSIVE DigitPrefix(_, _, _)
DigitPrefix(s, n, acc) ==
    IF s = <<>> \/ ~IsDigit(Head(s)) THEN [digits |-> n, value |-> acc]
    ELSE DigitPrefix(Tail(s), n + 1, acc * 10 + DigitValue(Head(s)))

NaN == [nan |-> TRUE, value |-> 0]
Num(v) == [nan |-> FALSE, value |-> v]

\* parseInt(piece, 10): skips leading white space, takes an optional sign and the
\* longest prefix of digits, ignores what follows; NaN when there is no digit
parseInt(piece) ==
    LET t == TrimStart(piece)
        negative == t # <<>> /\ Head(t) = "-"
        signed == t # <<>> /\ (Head(t) = "-" \/ Head(t) = "+")
        p == DigitPrefix(IF signed THEN Tail(t) ELSE t, 0, 0)
    IN IF p.digits = 0 THEN NaN
       ELSE Num(IF negative THEN 0 - p.value ELSE p.value)

RECURSIVE Pow(_, _)
Pow(b, e) == IF e = 0 THEN 1 ELSE b * Pow(b, e - 1)

\* mutant: the least significant group first
RECURSIVE SumPiecesLeastFirst(_, _)
SumPiecesLeastFirst(ints, i) ==
    IF i > Len(ints) THEN 0
    ELSE ints[i] * Pow(60, i - 1) + SumPiecesLeastFirst(ints, i + 1)

\* the loop of calculateOffsetInSeconds (i counts from 1)
RECURSIVE SumPieces(_, _)
SumPieces(ints, i) ==
    IF i > Len(ints) THEN 0
    ELSE ints[i] * Pow(60, Len(ints) - i) + SumPieces(ints, i + 1)

calculateOffsetInSeconds(timestampString) ==
    LET aryTimePieces == Split(timestampString)
        parsed == [i \in 1..Len(aryTimePieces) |-> parseInt(aryTimePieces[i])]
    IN IF \E i \in 1..Len(parsed) : parsed[i].nan
       THEN Throw("calculateOffsetInSeconds: invalid timestamp")
       ELSE Return(SumPieces([i \in 1..Len(parsed) |-> parsed[i].value], 1))

----------------------------------------------------------------------------
(* The transcript parser *)

\* one ytd-transcript-segment-renderer element: the textContent of each
\* div.segment-timestamp and of each yt-formatted-string below it
Segment(stamps, texts) == [stamps |-> stamps, texts |-> texts]

RawEntry(text, stamp, offset) ==
    [transcriptText |-> text, timestampString |-> stamp, offsetInSeconds |-> offset]

\* the callback of the map in getAllTranscriptTextAndTimes
parseSegment(domElement) ==
    IF Len(domElement.stamps) = 0 THEN Throw("getAllTranscriptTextAndTimes: no timestamp")
    ELSE IF Len(domElement.stamps) > 1
    THEN Throw("getAllTranscriptTextAndTimes: multiple timestamps")
    ELSE LET timestampString == Trim(domElement.stamps[1])
             offsetInSeconds == calculateOffsetInSeconds(timestampString)
         IN IF offsetInSeconds.kind = "throw" THEN offsetInSeconds
            ELSE IF Len(domElement.texts) = 0
            THEN Throw("getAllTranscriptTextAndTimes: no text")
            ELSE IF Len(domElement.texts) > 1
            THEN Throw("getAllTranscriptTextAndTimes: multiple texts")
            ELSE Return(RawEntry(Trim(domElement.texts[1]), timestampString,
                                  offsetInSeconds.value))

\* mutant: an element that cannot be parsed is skipped
getAllTranscriptTextAndTimesSkipping(segs) ==
    LET each == [i \in 1..Len(segs) |-> parseSegment(segs[i])]
        Good(r) == r.kind = "return"
        kept == SelectSeq(each, Good)
    IN Return([i \in 1..Len(kept) |-> kept[i].value])

\* getAllTranscriptTextAndTimes: the first throw of the map in document order, or
\* the array of raw entries
getAllTranscriptTextAndTimes(segs) ==
    LET each == [i \in 1..Len(segs) |-> parseSegment(segs[i])]
        bad == {i \in 1..Len(segs) : each[i].kind = "throw"}
    IN IF bad # {} THEN each[CHOOSE i \in bad : \A j \in bad : i <= j]
       ELSE Return([i \in 1..Len(segs) |-> each[i].value])

----------------------------------------------------------------------------
(* The transcript model *)

\* isEmptySafeString on a character sequence
isEmptySafeString(str) == \A i \in 1..Len(str) : IsSpace(str[i])

\* location.href: whether it is the empty string, whether new URL() accepts it,
\* its hostname, and its v search parameter
Url(empty, wellFormed, hostname, hasV, v) ==
    [empty |-> empty, wellFormed |-> wellFormed, hostname |-> hostname,
     hasV |-> hasV, v |-> v]

extractYouTubeVideoIdFromUrl(url) ==
    IF url.empty THEN Throw("extractYouTubeVideoIdFromUrl: empty url")
    ELSE IF ~url.wellFormed THEN Throw("extractYouTubeVideoIdFromUrl: invalid format")
    ELSE IF url.hostname # "www.youtube.com" /\ url.hostname # "youtube.com"
    THEN Throw("extractYouTubeVideoIdFromUrl: not a YouTube URL")
    ELSE IF ~url.hasV \/ url.v = <<>> \/ Trim(url.v) = <<>>
    THEN Throw("extractYouTubeVideoIdFromUrl: video id missing or empty")
    ELSE Return(Trim(url.v))

\* mutant: the offset is not validated
TranscriptLineAnyOffset(transcriptText, timestampString, offsetInSeconds) ==
    IF isEmptySafeString(transcriptText) THEN Throw("TranscriptLine: transcriptText")
    ELSE IF isEmptySafeString(timestampString) THEN Throw("TranscriptLine: timestampString")
    ELSE Return(RawEntry(transcriptText, timestampString, offsetInSeconds))

\* the TranscriptLine constructor (offsets of the model are integers)
TranscriptLine(transcriptText, timestampString, offsetInSeconds) ==
    IF isEmptySafeString(transcriptText) THEN Throw("TranscriptLine: transcriptText")
    ELSE IF isEmptySafeString(timestampString) THEN Throw("TranscriptLine: timestampString")
    ELSE IF offsetInSeconds < 0 THEN Throw("TranscriptLine: offsetInSeconds")
    ELSE Return(RawEntry(transcriptText, timestampString, offsetInSeconds))

\* TranscriptLine.reconstituteObject: the three fields of the raw object go to the
\* constructor as they are
reconstituteObject(rawTranscriptLineObj) ==
    TranscriptLine(rawTranscriptLineObj.transcriptText,
                   rawTranscriptLineObj.timestampString,
                   rawTranscriptLineObj.offsetInSeconds)

\* a TranscriptGrabbed object
TranscriptGrabbed(idOfVideo, lines) ==
    [idOfVideo |-> idOfVideo, aryTranscriptLineObjs |-> lines]

\* mutant: the new line goes to the front
addTranscriptLineObjectInFront(lines, transcriptLineObj) == <<transcriptLineObj>> \o lines

\* TranscriptGrabbed.addTranscriptLineObject
addTranscriptLineObject(lines, transcriptLineObj) == Append(lines, transcriptLineObj)

\* mutant: the threshold itself already counts as too many
tooManyEmptyLinesAtThreshold(countContiguousEmptyLines) ==
    countContiguousEmptyLines >= MAX_EMPTY_CONTIGUOUS_TRANSCRIPT_LINES

\* line 1230: too many contiguous empty lines?
tooManyEmptyLines(countContiguousEmptyLines) ==
    countContiguousEmptyLines > MAX_EMPTY_CONTIGUOUS_TRANSCRIPT_LINES

\* the loop of getTranscript_async over the raw entries, from entry ndx on
RECURSIVE assembleFrom(_, _, _, _)
assembleFrom(aryTranscriptObjs, ndx, countContiguousEmptyLines, lines) ==
    IF ndx > Len(aryTranscriptObjs) THEN Return(lines)
    ELSE LET rawTranscriptLineObj == aryTranscriptObjs[ndx]
             useTranscriptText == Trim(rawTranscriptLineObj.transcriptText)
         IN IF Len(useTranscriptText) < 1
            THEN IF tooManyEmptyLines(countContiguousEmptyLines + 1)
                 THEN Throw("getTranscript_async: too many contiguous empty lines")
                 ELSE assembleFrom(aryTranscriptObjs, ndx + 1,
                                   countContiguousEmptyLines + 1, lines)
            ELSE LET transcriptLineObj ==
                         TranscriptLine(useTranscriptText,
                                        rawTranscriptLineObj.timestampString,
                                        rawTranscriptLineObj.offsetInSeconds)
                 IN IF transcriptLineObj.kind = "throw" THEN transcriptLineObj
                    ELSE assembleFrom(aryTranscriptObjs, ndx + 1, 0,
                                      addTranscriptLineObject(lines,
                                                              transcriptLineObj.value))

\* getTranscript_async from the parse on: parse, video id, assembly
parseAndAssemble(segs, url) ==
    LET aryTranscriptObjs == getAllTranscriptTextAndTimes(segs)
        videoId == extractYouTubeVideoIdFromUrl(url)
    IN IF aryTranscriptObjs.kind = "throw" THEN aryTranscriptObjs
       ELSE IF videoId.kind = "throw" THEN videoId
       ELSE IF isEmptySafeString(videoId.value)
       THEN Throw("getTranscript_async: videoId empty")
       ELSE LET lines == assembleFrom(aryTranscriptObjs.value, 1, 0, <<>>)
            IN IF lines.kind = "throw" THEN lines
               ELSE Return(TranscriptGrabbed(videoId.value, lines.value))

\* String.prototype.replace(/\[.*?\]/g, ''): each '[' is removed together with
\* everything up to the nearest following ']' ('.' does not match a line break)
RECURSIVE CloseAt(_, _)
CloseAt(s, i) ==
    IF i > Len(s) \/ s[i] = "\n" THEN 0
    ELSE IF s[i] = "]" THEN i
    ELSE CloseAt(s, i + 1)

RECURSIVE RemoveBracketed(_)
RemoveBracketed(s) ==
    IF s = <<>> THEN s
    ELSE IF Head(s) = "[" /\ CloseAt(s, 2) # 0
    THEN RemoveBracketed(SubSeq(s, CloseAt(s, 2) + 1, Len(s)))
    ELSE <<Head(s)>> \o RemoveBracketed(Tail(s))

\* TranscriptGrabbed.getConcatenatedTextWithoutTimestamps
RECURSIVE concatFrom(_, _, _)
concatFrom(lines, i, strConcatenatedText) ==
    IF i > Len(lines) THEN strConcatenatedText
    ELSE LET trimmedText == Trim(RemoveBracketed(Trim(lines[i].transcriptText)))
         IN IF Len(trimmedText) > 0
            THEN concatFrom(lines, i + 1,
                     (IF Len(strConcatenatedText) > 0
                         /\ strConcatenatedText[Len(strConcatenatedText)] # " "
                      THEN Append(strConcatenatedText, " ")
                      ELSE strConcatenatedText) \o trimmedText)
            ELSE concatFrom(lines, i + 1, strConcatenatedText)

\* Array.prototype.join() without an argument: the pieces separated by commas
RECURSIVE Join(_)
Join(pieces) ==
    IF pieces = <<>> THEN <<>>
    ELSE IF Len(pieces) = 1 THEN pieces[1]
    ELSE pieces[1] \o <<",">> \o Join(Tail(pieces))

\* TranscriptGrabbed.getConcatenatedTextWithTimestamps
getConcatenatedTextWithTimestamps(lines) ==
    Return(Join([i \in 1..Len(lines) |->
                    lines[i].timestampString \o <<"\n">>
                        \o lines[i].transcriptText \o <<"\n">>]))

getConcatenatedTextWithoutTimestamps(transcript) ==
    concatFrom(transcript.aryTranscriptLineObjs, 1, <<>>)

----------------------------------------------------------------------------
(* getTranscript_async.  It runs without interruption between two settle     *)
(* waits (an await of a value that is no promise resumes in the same task),  *)
(* so each operator below is the code from one resumption to the next wait   *)
(* or to the end: the position reached, the outcome, the operations          *)
(* performed and the page left behind.                                       *)
(* bVerbose_content only guards console output; it is declared in          *)
(* content.js (line 10) and taken as declared wherever the function runs.    *)

Ev(op, arg) == [op |-> op, arg |-> arg]

Pending == [kind |-> "pending", err |-> "", value |-> NoNode]
ReturnNull == [kind |-> "null", err |-> "", value |-> NoNode]

Step(p, r, ev, d) == [pc |-> p, result |-> r, events |-> ev, dom |-> d]

\* mutant: the trigger is clicked twice
clickTwiceAndWait(d, ev, transcriptBtn) ==
    Step("waitTranscript", Pending,
         ev \o <<Ev("clickTrigger", transcriptBtn), Ev("clickTrigger", transcriptBtn),
                 Ev("wait", 0)>>, d)

\* lines 1176-1189: click the trigger and wait for the panel to populate
clickAndWait(d, ev, transcriptBtn) ==
    Step("waitTranscript", Pending,
         ev \o <<Ev("clickTrigger", transcriptBtn), Ev("wait", 0)>>, d)

\* mutant: without expando buttons the acquisition goes on to its end
expandStageGoesOn(d, ev) ==
    LET aryExpandoButtons == findElementByTagNameAndText(d, TagExpand, TextMore)
    IN IF aryExpandoButtons.kind = "return" /\ aryExpandoButtons.value # <<>>
       THEN Step("waitExpand", Pending,
                 ev \o <<Ev("findExpand", Len(aryExpandoButtons.value))>>
                    \o [i \in 1..Len(aryExpandoButtons.value) |->
                           Ev("clickExpand", aryExpandoButtons.value[i])]
                    \o <<Ev("wait", 0)>>, d)
       ELSE Step("done", ReturnNull, ev \o <<Ev("findExpand", 0)>>, d)

\* mutant: every expando button is clicked twice
expandStageClicksTwice(d, ev) ==
    LET aryExpandoButtons == findElementByTagNameAndText(d, TagExpand, TextMore)
    IN IF aryExpandoButtons.kind = "throw"
       THEN Step("done", aryExpandoButtons, ev, d)
       ELSE IF aryExpandoButtons.value # <<>>
       THEN Step("waitExpand", Pending,
                 ev \o <<Ev("findExpand", Len(aryExpandoButtons.value))>>
                    \o [i \in 1..(2 * Len(aryExpandoButtons.value)) |->
                           Ev("clickExpand", aryExpandoButtons.value[(i + 1) \div 2])]
                    \o <<Ev("wait", 0)>>, d)
       ELSE Step("done", Throw("getTranscript_async: no expando buttons"),
                 ev \o <<Ev("findExpand", 0)>>, d)

\* lines 1126-1139 and 1166-1168: the expando buttons
expandStage(d, ev) ==
    LET aryExpandoButtons == findElementByTagNameAndText(d, TagExpand, TextMore)
    IN IF aryExpandoButtons.kind = "throw"
       THEN Step("done", aryExpandoButtons, ev, d)
       ELSE IF aryExpandoButtons.value # <<>>
       THEN Step("waitExpand", Pending,
                 ev \o <<Ev("findExpand", Len(aryExpandoButtons.value))>>
                    \o [i \in 1..Len(aryExpandoButtons.value) |->
                           Ev("clickExpand", aryExpandoButtons.value[i])]
                    \o <<Ev("wait", 0)>>, d)
       ELSE Step("done", Throw("getTranscript_async: no expando buttons"),
                 ev \o <<Ev("findExpand", 0)>>, d)

\* mutant: the expando stage runs although the locate found the trigger
secondLocateExpandsAnyway(d, ev) ==
    LET transcriptBtn == findButtonByAriaLabel(d, ARIA_LABEL_TRANSCRIPT_BUTTON)
    IN IF transcriptBtn.kind = "throw"
       THEN Step("done", transcriptBtn, ev \o <<Ev("locateThrow", 0)>>, d)
       ELSE expandStage(d, ev \o <<Ev("locate", transcriptBtn.value)>>)

\* lines 1119-1126 and 1171: the locate after the chat container stage
secondLocate(d, ev) ==
    LET transcriptBtn == findButtonByAriaLabel(d, ARIA_LABEL_TRANSCRIPT_BUTTON)
    IN IF transcriptBtn.kind = "throw"
       THEN Step("done", transcriptBtn, ev \o <<Ev("locateThrow", 0)>>, d)
       ELSE IF transcriptBtn.value # NoNode
       THEN clickAndWait(d, ev \o <<Ev("locate", transcriptBtn.value)>>,
                         transcriptBtn.value)
       ELSE expandStage(d, ev \o <<Ev("locate", NoNode)>>)

\* mutant: the transcript container is shown and the wait made whether or not the
\* chat container was removed
tryDirectAlwaysShows(d) ==
    LET transcriptBtn == findButtonByAriaLabel(d, ARIA_LABEL_TRANSCRIPT_BUTTON)
    IN IF transcriptBtn.kind = "throw"
       THEN Step("done", transcriptBtn, <<Ev("locateThrow", 0)>>, d)
       ELSE IF transcriptBtn.value # NoNode
       THEN clickAndWait(d, <<Ev("locate", transcriptBtn.value)>>, transcriptBtn.value)
       ELSE LET chat == removeChatContainer(d)
                shown == showTranscriptDiv(chat.dom)
            IN Step("waitChat", Pending,
                    <<Ev("locate", NoNode), Ev("removeChat", IF chat.removed THEN 1 ELSE 0),
                      Ev("showTranscriptDiv", shown.count), Ev("wait", 0)>>,
                    shown.dom)

\* lines 1094-1115: the first locate and the chat container
tryDirect(d) ==
    LET transcriptBtn == findButtonByAriaLabel(d, ARIA_LABEL_TRANSCRIPT_BUTTON)
    IN IF transcriptBtn.kind = "throw"
       THEN Step("done", transcriptBtn, <<Ev("locateThrow", 0)>>, d)
       ELSE IF transcriptBtn.value # NoNode
       THEN clickAndWait(d, <<Ev("locate", transcriptBtn.value)>>, transcriptBtn.value)
       ELSE LET chat == removeChatContainer(d)
            IN IF chat.removed
               THEN LET shown == showTranscriptDiv(chat.dom)
                    IN Step("waitChat", Pending,
                            <<Ev("locate", NoNode), Ev("removeChat", 1),
                              Ev("showTranscriptDiv", shown.count), Ev("wait", 0)>>,
                            shown.dom)
               ELSE secondLocate(d, <<Ev("locate", NoNode), Ev("removeChat", 0)>>)

\* mutant: the trigger is clicked whether found or not
afterExpandWaitClicksAnyway(d) ==
    LET shown == showTranscriptDiv(d)
    IN clickAndWait(shown.dom,
                    <<Ev("locate", NoNode), Ev("showTranscriptDiv", shown.count),
                      Ev("locate", NoNode)>>, NoNode)

\* mutant: absent is returned after the third locate, without the last resort
afterExpandWaitNoLastResort(d) ==
    LET transcriptBtn == findButtonByAriaLabel(d, ARIA_LABEL_TRANSCRIPT_BUTTON)
    IN IF transcriptBtn.kind = "throw"
       THEN Step("done", transcriptBtn, <<Ev("locateThrow", 0)>>, d)
       ELSE IF transcriptBtn.value # NoNode
       THEN clickAndWait(d, <<Ev("locate", transcriptBtn.value)>>, transcriptBtn.value)
       ELSE Step("done", ReturnNull, <<Ev("locate", NoNode)>>, d)

\* lines 1146-1174: the locate after the expando wait, the last resort, the end
afterExpandWait(d) ==
    LET transcriptBtn == findButtonByAriaLabel(d, ARIA_LABEL_TRANSCRIPT_BUTTON)
    IN IF transcriptBtn.kind = "throw"
       THEN Step("done", transcriptBtn, <<Ev("locateThrow", 0)>>, d)
       ELSE IF transcriptBtn.value # NoNode
       THEN clickAndWait(d, <<Ev("locate", transcriptBtn.value)>>, transcriptBtn.value)
       ELSE LET shown == showTranscriptDiv(d)
                again == findButtonByAriaLabel(shown.dom, ARIA_LABEL_TRANSCRIPT_BUTTON)
                ev == <<Ev("locate", NoNode), Ev("showTranscriptDiv", shown.count)>>
            IN IF again.kind = "throw"
               THEN Step("done", again, ev \o <<Ev("locateThrow", 0)>>, shown.dom)
               ELSE IF again.value # NoNode
               THEN clickAndWait(shown.dom, ev \o <<Ev("locate", again.value)>>,
                                 again.value)
               ELSE Step("done", ReturnNull, ev \o <<Ev("locate", NoNode)>>, shown.dom)

\* lines 1196-1248: parse the panel and assemble the transcript
afterTranscriptWait(d, segs, url) ==
    LET r == parseAndAssemble(segs, url)
    IN Step("done",
            IF r.kind = "throw" THEN r
            ELSE [kind |-> "transcript", err |-> "", value |-> r.value],
            <<Ev("parse", 0)>>, d)

Apply(step) ==
    /\ pc' = step.pc
    /\ result' = step.result
    /\ log' = log \o step.events
    /\ dom' = step.dom

(* The actions of the acquisition *)

TryDirect ==
    /\ pc = "called"
    /\ Apply(tryDirect(dom))
    /\ UNCHANGED <<extVars, inputVars, pageChanges, appVars, call, schedVars>>

ChatSettled ==
    /\ pc = "waitChat"
    /\ Apply(secondLocate(dom, <<>>))
    /\ UNCHANGED <<extVars, inputVars, pageChanges, appVars, call, schedVars>>

ExpandSettled ==
    /\ pc = "waitExpand"
    /\ Apply(afterExpandWait(dom))
    /\ UNCHANGED <<extVars, inputVars, pageChanges, appVars, call, schedVars>>

TranscriptSettled ==
    /\ pc = "waitTranscript"
    /\ Apply(afterTranscriptWait(dom, segments, href))
    /\ UNCHANGED <<extVars, inputVars, pageChanges, appVars, call, schedVars>>

\* the page changes the display of one of its elements while the acquisition
\* waits before a locate (after the last wait only the panel's entries are read)
PageChange ==
    /\ pc \in {"waitChat", "waitExpand"}
    /\ pageChanges < MaxPageChanges
    /\ \E n \in Nodes, display \in {"none", "block"} :
          /\ InDocument(dom, n)
          /\ dom[n].display # display
          /\ dom' = [dom EXCEPT ![n].display = display]
          /\ log' = Append(log, Ev("pageChange", n))
    /\ pageChanges' = pageChanges + 1
    /\ UNCHANGED <<extVars, inputVars, pc, result, appVars, call, schedVars>>

----------------------------------------------------------------------------
(* initializeApplication (the popup that acquires the transcript) *)

\* lines 1286-1291: is window.ai.summarizer there
AppStart ==
    /\ appPc = "start"
    /\ \E summarizationApiAvailable \in BOOLEAN :
          IF ~summarizationApiAvailable
          THEN dialog' = "summarization-unavailable" /\ appPc' = "returned"
          ELSE dialog' = dialog /\ appPc' = "capabilities"
    /\ UNCHANGED <<extVars, inputVars, acqVars, inputValue, appError, call, schedVars>>

\* mutant: the listeners are registered and the acquisition started although the
\* probe said no
AppCapabilitiesGoesOn ==
    /\ appPc = "capabilities"
    /\ \E available \in {"readily", "after-download", "no"} :
          /\ dialog' = IF available = "no" THEN "summarization-unsupported" ELSE dialog
          /\ appPc' = "acquiring"
          /\ pc' = "called"
          /\ listening' = TRUE
    /\ UNCHANGED <<extVars, inputVars, dom, log, result, pageChanges, inputValue, appError, call,
                   timeout, timers, scheduled, runs, output>>

\* lines 1293-1342: the capability probe answers; the listeners are registered
\* and getTranscript_async is called
AppCapabilities ==
    /\ appPc = "capabilities"
    /\ \E available \in {"readily", "after-download", "no"} :
          IF available = "no"
          THEN /\ dialog' = "summarization-unsupported"
               /\ appPc' = "returned"
               /\ pc' = pc
               /\ listening' = listening
          ELSE /\ dialog' = dialog
               /\ appPc' = "acquiring"
               /\ pc' = "called"
               /\ listening' = TRUE
    /\ UNCHANGED <<extVars, inputVars, dom, log, result, pageChanges, inputValue, appError, call,
                   timeout, timers, scheduled, runs, output>>

\* lines 1342-1345: getTranscript_async has settled
AppResume ==
    /\ appPc = "acquiring"
    /\ pc = "done"
    /\ IF result.kind = "throw"
       THEN /\ appPc' = "rejected"
            /\ appError' = result.err
            /\ inputValue' = inputValue
       ELSE IF result.kind = "null"
       THEN \* transcriptGrabbedObj is null: the method call on it is a TypeError
            /\ appPc' = "rejected"
            /\ appError' = "TypeError: transcriptGrabbedObj is null"
            /\ inputValue' = inputValue
       ELSE /\ appPc' = "returned"
            /\ appError' = appError
            /\ inputValue' = getConcatenatedTextWithoutTimestamps(result.value)
    /\ UNCHANGED <<extVars, inputVars, acqVars, dialog, call, schedVars>>

----------------------------------------------------------------------------
(* scheduleSummarization and the runs its timer starts.  A run is the async  *)
(* callback of setTimeout; it gives up control at each await of the          *)
(* summarizer API, whose promises settle in any order and may reject.        *)

NoTimer == 0

Placeholder == [kind |-> "placeholder", run |-> NoTimer]
Summary(r) == [kind |-> "summary", run |-> r]

SchedInit ==
    /\ listening = FALSE
    /\ timeout = NoTimer
    /\ timers = {}
    /\ scheduled = 0
    /\ runs = <<>>
    /\ output = [kind |-> "initial", run |-> NoTimer]

\* 'Hello world. This is a test.'
ScenarioAText ==
    <<"H", "e", "l", "l", "o", " ", "w", "o", "r", "l", "d", ".", " ", "T", "h", "i", "s", " ", "i", "s", " ", "a", " ", "t", "e", "s", "t", ".">>

\* the texts the user leaves in the input
InputTexts == {<<>>, <<"a", " ", "b", " ", "c">>, ScenarioAText}

\* mutant: the pending timer is not cleared
scheduleSummarizationNoClear ==
    /\ scheduled' = scheduled + 1
    /\ timeout' = scheduled + 1
    /\ timers' = timers \cup {scheduled + 1}
    /\ UNCHANGED <<runs, output, listening>>

\* lines 1305-1307: clearTimeout(timeout); timeout = setTimeout(..., 1000)
scheduleSummarization ==
    /\ scheduled' = scheduled + 1
    /\ timeout' = scheduled + 1
    /\ timers' = (timers \ {timeout}) \cup {scheduled + 1}
    /\ UNCHANGED <<runs, output, listening>>

\* lines 1322-1325: a change event on one of the three selects
ChangeEvent ==
    /\ listening
    /\ scheduled < MaxEvents
    /\ scheduleSummarization
    /\ UNCHANGED <<extVars, inputVars, acqVars, appVars, call>>

\* lines 1327-1338: an input event on the text area
InputEvent ==
    /\ listening
    /\ scheduled < MaxEvents
    /\ \E text \in InputTexts : inputValue' = text
    /\ scheduleSummarization
    /\ UNCHANGED <<extVars, inputVars, acqVars, appPc, dialog, appError, call>>

\* a transcript of 1500 one-letter words
ScenarioBText == [i \in 1..(2 * 1500 - 1) |-> IF i % 2 = 1 THEN "w" ELSE " "]

\* lines 1327-1338: an input event that leaves the long transcript in the text area
LongInputEvent ==
    /\ listening
    /\ scheduled < MaxEvents
    /\ inputValue' = ScenarioBText
    /\ scheduleSummarization
    /\ UNCHANGED <<extVars, inputVars, acqVars, appPc, dialog, appError, call>>

\* a run: its position, what the capability probe said, its session, how often the
\* session was destroyed, the text given to summarize, and (history) the number of
\* events that had arrived when its timer fired, the input text when summarize
\* was called and the texts of the summarize calls the run has made, in order;
\* whether createSummarizationSession was given a downloadProgressCallback, whether
\* it registered the listener, whether session.ready has resolved, and who called
\* it: the timer callback, or a direct call that only wants the session
Run(p, available, session, destroys, text, events) ==
    [pc |-> p, available |-> available, session |-> session, destroys |-> destroys,
     text |-> text, events |-> events, input |-> <<>>, calls |-> <<>>,
     callback |-> FALSE, listener |-> FALSE, readied |-> FALSE, caller |-> "timer"]

\* lines 1307-1309 and 1264: the timer fires; the callback shows the placeholder
\* and createSummarizationSession asks for the capabilities
TimerFires ==
    \E t \in timers :
        /\ timers' = timers \ {t}
        /\ output' = Placeholder
        /\ runs' = (t :> Run("capabilities", "", "none", 0, <<>>, scheduled)) @@ runs
        /\ UNCHANGED <<extVars, inputVars, acqVars, appVars, call, listening, timeout, scheduled>>

\* lines 1264-1269: the capabilities arrive; 'no' throws, else create is called
RunCapabilities ==
    \E r \in DOMAIN runs, available \in {"readily", "after-download", "no"} :
        /\ runs[r].pc = "capabilities"
        /\ runs' = [runs EXCEPT ![r].available = available,
                                 ![r].pc = IF available = "no" THEN "rejected" ELSE "create"]
        /\ UNCHANGED <<extVars, inputVars, acqVars, appVars, call,
                        listening, timeout, timers, scheduled, output>>

\* mutant: the text is passed without its first character
summarizeCalledDropsHead(run) ==
    [run EXCEPT !.pc = "summarize", !.input = inputValue,
                !.text = IF inputValue = <<>> THEN <<>> ELSE Tail(inputValue),
                !.calls = Append(@, IF inputValue = <<>> THEN <<>> ELSE Tail(inputValue))]

\* line 1315: session.summarize(inputTextArea.value) is called
summarizeCalled(run) ==
    [run EXCEPT !.pc = "summarize", !.text = inputValue, !.input = inputValue,
                !.calls = Append(@, inputValue)]

\* line 1277 and line 1315: the session is returned; the timer callback calls
\* summarize on it
sessionReturned(run) ==
    IF run.caller = "timer" THEN summarizeCalled(run) ELSE [run EXCEPT !.pc = "returned"]

\* mutant: the session is returned without waiting for session.ready
RunCreateSkipsReady ==
    \E r \in DOMAIN runs, created \in BOOLEAN :
        /\ runs[r].pc = "create"
        /\ runs' = [runs EXCEPT ![r] =
                IF ~created THEN [@ EXCEPT !.pc = "rejected"]
                ELSE sessionReturned([@ EXCEPT !.session = "open",
                        !.listener = (runs[r].available = "after-download"
                                        /\ runs[r].callback)])]
        /\ UNCHANGED <<extVars, inputVars, acqVars, appVars, call,
                        listening, timeout, timers, scheduled, output>>

\* lines 1269-1277 and 1315: create settles; after a download the listener is
\* registered if a callback was given and the run waits for session.ready, else
\* the session is returned
RunCreate ==
    \E r \in DOMAIN runs, created \in BOOLEAN :
        /\ runs[r].pc = "create"
        /\ runs' = [runs EXCEPT ![r] =
                IF ~created THEN [@ EXCEPT !.pc = "rejected"]
                ELSE IF @.available = "after-download"
                THEN [@ EXCEPT !.pc = "ready", !.session = "open",
                               !.listener = runs[r].callback]
                ELSE sessionReturned([@ EXCEPT !.session = "open"])]
        /\ UNCHANGED <<extVars, inputVars, acqVars, appVars, call,
                        listening, timeout, timers, scheduled, output>>

\* lines 1274 and 1315: session.ready settles
RunReady ==
    \E r \in DOMAIN runs, ready \in BOOLEAN :
        /\ runs[r].pc = "ready"
        /\ runs' = [runs EXCEPT ![r] =
                IF ready THEN sessionReturned([@ EXCEPT !.readied = TRUE])
                ELSE [@ EXCEPT !.pc = "rejected"]]
        /\ UNCHANGED <<extVars, inputVars, acqVars, appVars, call,
                        listening, timeout, timers, scheduled, output>>

\* mutant: a failed summarize call still shows a result for the run
RunSummarizeShowsAnyway ==
    \E r \in DOMAIN runs, summarized \in BOOLEAN :
        /\ runs[r].pc = "summarize"
        /\ runs' = [runs EXCEPT ![r].pc = IF summarized THEN "ended" ELSE "rejected",
                                 ![r].session = IF summarized THEN "destroyed" ELSE @,
                                 ![r].destroys = IF summarized THEN @ + 1 ELSE @]
        /\ output' = Summary(r)
        /\ UNCHANGED <<extVars, inputVars, acqVars, appVars, call,
                        listening, timeout, timers, scheduled>>

\* lines 1315-1318: summarize settles; on success the session is destroyed and
\* the summary shown
RunSummarize ==
    \E r \in DOMAIN runs, summarized \in BOOLEAN :
        /\ runs[r].pc = "summarize"
        /\ IF summarized
           THEN /\ runs' = [runs EXCEPT ![r].pc = "ended", ![r].session = "destroyed",
                                         ![r].destroys = @ + 1]
                /\ output' = Summary(r)
           ELSE /\ runs' = [runs EXCEPT ![r].pc = "rejected"]
                /\ output' = output
        /\ UNCHANGED <<extVars, inputVars, acqVars, appVars, call,
                        listening, timeout, timers, scheduled>>

-----------------------------------------------------------------------------
(* The tab popup: handleAction and its callbacks *)

\* the tabs of the current window, by id, in the order chrome.tabs.query
\* gives them
Tabs == 1..MaxTabs

\* the popup before an action button is pressed
ActIdle ==
    [pc |-> "idle", selected |-> {}, onlyLinks |-> FALSE,
     stage |-> [t \in Tabs |-> "none"], processedTabs |-> 0,
     contents |-> <<>>, processCalls |-> 0, given |-> <<>>]

\* processContents(contents, ...): counted, with the contents it was given
processContents(a, contents) ==
    [a EXCEPT !.processCalls = @ + 1, !.given = contents, !.pc = "done"]

\* handleAction up to chrome.tabs.query: the checked tabs and the
\* "links only" box are read, the query is pending
HandleAction ==
    /\ act.pc = "idle"
    /\ \E sel \in SUBSET Tabs \ {{}}, links \in BOOLEAN :
         act' = [act EXCEPT !.pc = "query", !.selected = sel,
                            !.onlyLinks = links]
    /\ UNCHANGED <<nav, inputVars, acqVars, appVars, call, schedVars>>

\* the callback of chrome.tabs.query: with "links only" every selected tab
\* is pushed and processContents is called, otherwise one
\* chrome.tabs.update is issued per selected tab
QueryCallback ==
    /\ act.pc = "query"
    /\ LET selectedTabsInfo == SetToSeq(act.selected)
       IN  act' = IF act.onlyLinks
                  THEN processContents([act EXCEPT !.contents = selectedTabsInfo],
                                       selectedTabsInfo)
                  ELSE [act EXCEPT !.pc = "scripts",
                                   !.processedTabs = 0,
                                   !.contents = <<>>,
                                   !.stage = [t \in Tabs |->
                                       IF t \in act.selected THEN "update"
                                       ELSE "none"]]
    /\ UNCHANGED <<nav, inputVars, acqVars, appVars, call, schedVars>>

\* the callback of chrome.tabs.update of one tab: executeScript is issued
UpdateCallback ==
    /\ act.pc = "scripts"
    /\ \E t \in Tabs :
         /\ act.stage[t] = "update"
         /\ act' = [act EXCEPT !.stage[t] = "script"]
    /\ UNCHANGED <<nav, inputVars, acqVars, appVars, call, schedVars>>

\* a script callback that counts only the tabs whose extraction succeeded
scriptCallbackSkipsFailed(a, t, failed) ==
    LET pushed == IF failed THEN a.contents ELSE Append(a.contents, t)
        counted == IF failed THEN a.processedTabs ELSE a.processedTabs + 1
        b == [a EXCEPT !.stage[t] = IF failed THEN "error" ELSE "ok",
                       !.contents = pushed,
                       !.processedTabs = counted]
    IN  IF counted = Cardinality(a.selected)
        THEN processContents(b, pushed)
        ELSE b

\* the callback of chrome.scripting.executeScript of tab t: an error is
\* logged, a result is pushed; the tab is counted either way and the last
\* one calls processContents
scriptCallback(a, t, failed) ==
    LET pushed == IF failed THEN a.contents ELSE Append(a.contents, t)
        counted == a.processedTabs + 1
        b == [a EXCEPT !.stage[t] = IF failed THEN "error" ELSE "ok",
                       !.contents = pushed,
                       !.processedTabs = counted]
    IN  IF counted = Cardinality(a.selected)
        THEN processContents(b, pushed)
        ELSE b

ScriptCallback ==
    /\ act.pc \in {"scripts", "done"}
    /\ \E t \in Tabs, failed \in BOOLEAN :
         /\ act.stage[t] = "script"
         /\ act' = scriptCallback(act, t, failed)
    /\ UNCHANGED <<nav, inputVars, acqVars, appVars, call, schedVars>>

-----------------------------------------------------------------------------
(* The tab popup: the popup chosen from the active tab's URL *)

UrlVideo == <<"y", "o", "u", "t", "u", "b", "e", ".", "c", "o", "m", "/", "w">>
UrlPlain == <<"e", "x", "a", "m", "p", "l", "e", ".", "o", "r", "g", "/">>
TabUrls == {UrlVideo, UrlPlain}
YouTubeDotCom == <<"y", "o", "u", "t", "u", "b", "e", ".", "c", "o", "m">>

\* String.prototype.includes
Includes(str, sub) ==
    \E i \in 1..(Len(str) - Len(sub) + 1) :
        SubSeq(str, i, i + Len(sub) - 1) = sub

\* setPopupBasedOnURL(url): the popup file given to chrome.action.setPopup
setPopupBasedOnURL(url) ==
    IF Includes(url, YouTubeDotCom) THEN "youtube-popup.html" ELSE "popup.html"

\* the tabs before any listener has run; the popup is the manifest's
NavOff ==
    [url |-> [t \in Tabs |-> UrlPlain], active |-> 1, lookups |-> {},
     events |-> 0, popup |-> "manifest", last |-> "none"]

\* chrome.tabs.onActivated: the tab becomes the active one and the
\* listener runs until its await of chrome.tabs.get
TabActivated ==
    /\ nav.events < MaxTabEvents
    /\ \E t \in Tabs \ {nav.active} :
         nav' = [nav EXCEPT !.active = t,
                            !.events = @ + 1,
                            !.lookups = @ \cup {[n |-> nav.events + 1,
                                                 tabId |-> t]},
                            !.last = "activated"]
    /\ UNCHANGED <<act, inputVars, acqVars, appVars, call, schedVars>>

\* chrome.tabs.get resolves: the listener resumes with the tab as it is now
LookupResolved ==
    /\ \E l \in nav.lookups :
         nav' = [nav EXCEPT !.lookups = @ \ {l},
                            !.popup = setPopupBasedOnURL(nav.url[l.tabId]),
                            !.last = "lookup"]
    /\ UNCHANGED <<act, inputVars, acqVars, appVars, call, schedVars>>

\* chrome.tabs.onUpdated with status 'complete': some tab, active or not,
\* has finished loading a URL
TabUpdated ==
    /\ nav.events < MaxTabEvents
    /\ \E t \in Tabs, u \in TabUrls :
         nav' = [nav EXCEPT !.url[t] = u,
                            !.events = @ + 1,
                            !.popup = setPopupBasedOnURL(u),
                            !.last = IF t = nav.active THEN "updated"
                                     ELSE "updated other"]
    /\ UNCHANGED <<act, inputVars, acqVars, appVars, call, schedVars>>

ExtInit ==
    /\ act = ActIdle
    /\ nav = NavOff

----------------------------------------------------------------------------
(* Direct calls of the library functions *)

NoCall == [fn |-> "none", arg |-> <<>>, ret |-> Pending]
CallOf(fn, arg) == [fn |-> fn, arg |-> arg, ret |-> Pending]

CallFindButtonByAriaLabel ==
    /\ call.fn = "findButtonByAriaLabel"
    /\ call.ret = Pending
    /\ call' = [call EXCEPT !.ret = findButtonByAriaLabel(dom, call.arg)]
    /\ UNCHANGED <<extVars, inputVars, acqVars, appVars, schedVars>>

CallCalculateOffsetInSeconds ==
    /\ call.fn = "calculateOffsetInSeconds"
    /\ call.ret = Pending
    /\ call' = [call EXCEPT !.ret = calculateOffsetInSeconds(call.arg)]
    /\ UNCHANGED <<extVars, inputVars, acqVars, appVars, schedVars>>

CallIsElementVisible ==
    /\ call.fn = "isElementVisible"
    /\ call.ret = Pending
    /\ call' = [call EXCEPT !.ret = Return(isElementVisible(dom, call.arg))]
    /\ UNCHANGED <<extVars, inputVars, acqVars, appVars, schedVars>>

CallGetAllTranscriptTextAndTimes ==
    /\ call.fn = "getAllTranscriptTextAndTimes"
    /\ call.ret = Pending
    /\ call' = [call EXCEPT !.ret = getAllTranscriptTextAndTimes(segments)]
    /\ UNCHANGED <<extVars, inputVars, acqVars, appVars, schedVars>>

CallReconstituteObject ==
    /\ call.fn = "reconstituteObject"
    /\ call.ret = Pending
    /\ call' = [call EXCEPT !.ret = reconstituteObject(call.arg)]
    /\ UNCHANGED <<extVars, inputVars, acqVars, appVars, schedVars>>

CallGetConcatenatedTextWithTimestamps ==
    /\ call.fn = "getConcatenatedTextWithTimestamps"
    /\ call.ret = Pending
    /\ call' = [call EXCEPT !.ret = getConcatenatedTextWithTimestamps(call.arg)]
    /\ UNCHANGED <<extVars, inputVars, acqVars, appVars, schedVars>>

\* lines 1263-1264: createSummarizationSession is called directly, with or without
\* a downloadProgressCallback, and asks for the capabilities
CallCreateSummarizationSession ==
    /\ call.fn = "createSummarizationSession"
    /\ runs = <<>>
    /\ runs' = (NoTimer :> [Run("capabilities", "", "none", 0, <<>>, 0)
                               EXCEPT !.callback = call.arg, !.caller = "call"])
    /\ UNCHANGED <<extVars, inputVars, acqVars, appVars, call,
                    listening, timeout, timers, scheduled, output>>

\* lines 734-773: the page is changed, the count returned (0 standing for null)
CallShowTranscriptDiv ==
    /\ call.fn = "showTranscriptDiv"
    /\ call.ret = Pending
    /\ call' = [call EXCEPT !.ret = Return(showTranscriptDiv(dom).count)]
    /\ dom' = showTranscriptDiv(dom).dom
    /\ UNCHANGED <<extVars, inputVars, pc, log, result, pageChanges, appVars, schedVars>>

----------------------------------------------------------------------------
(* The inputs: pages, transcript panels, URLs, labels *)

SeqsUpTo(S, n) == UNION {[1..k -> S] : k \in 0..n}

\* an element hidden in the given way ("visible": not hidden)
El(tag, id, aria, text, parent, hide, attached) ==
    Element(tag, id, aria, text, parent,
            IF hide = "display" THEN "none" ELSE "block",
            IF hide = "visibility" THEN "hidden" ELSE "visible",
            IF hide = "opacity" THEN "0" ELSE "1",
            attached)

\* the page: a chat container (1), an engagement panel (2) holding a button (3),
\* a second container (4) holding a button (5), and two paper buttons (6, 7)
Page(c) ==
    [n \in Nodes |->
        CASE n = 1 -> El(TagDiv, IdChat, Null, <<>>, NoNode, "visible", c.chat)
          [] n = 2 -> El(TagPanel, "", Null, <<>>, NoNode, c.hide2, TRUE)
          [] n = 3 -> El(TagButton, "", c.aria3, <<>>, 2, c.hide3, TRUE)
          [] n = 4 -> El(c.tag4, "", c.aria4, <<>>, NoNode, c.hide4, TRUE)
          [] n = 5 -> El(TagButton, "", c.aria5, <<>>, 4, c.hide5, TRUE)
          [] n = 6 -> El(TagExpand, "", Null, c.text6, NoNode, c.hide6, TRUE)
          [] n = 7 -> El(TagExpand, "", Null, c.text7, NoNode, "visible", TRUE)]

\* the pages the acquisition is run on
AcqChoices ==
    [chat : BOOLEAN, hide2 : {"visible", "display"},
     aria3 : {ARIA_LABEL_TRANSCRIPT_BUTTON, "SHOW TRANSCRIPT", "Share"},
     hide3 : {"visible"},
     tag4 : {TagPanel, TagDiv}, aria4 : {Null}, hide4 : {"visible", "display"},
     aria5 : {ARIA_LABEL_TRANSCRIPT_BUTTON, "Share"}, hide5 : {"visible"},
     text6 : {TextMore, TextLess}, hide6 : {"visible", "display"},
     text7 : {<<" ">> \o TextMore \o <<"\n">>, TextLess}]

\* the pages the locator is called on
LocatorChoices ==
    [chat : {FALSE}, hide2 : {"visible", "display", "visibility", "opacity"},
     aria3 : {ARIA_LABEL_TRANSCRIPT_BUTTON, "Share"},
     hide3 : {"visible", "display", "visibility", "opacity"},
     tag4 : {TagDiv}, aria4 : {Null, ARIA_LABEL_TRANSCRIPT_BUTTON},
     hide4 : {"visible", "opacity"},
     aria5 : {ARIA_LABEL_TRANSCRIPT_BUTTON, "Share"}, hide5 : {"visible", "visibility"},
     text6 : {TextLess}, hide6 : {"visible"}, text7 : {TextLess}]

\* a page of nested elements: element n lies in element n - 1, down to MaxDepth
ChainPage(hide) ==
    [n \in Nodes |->
        IF n <= MaxDepth THEN El(TagDiv, "", Null, <<>>, n - 1, hide[n], TRUE)
        ELSE El(TagDiv, "", Null, <<>>, NoNode, "visible", TRUE)]

ChainChoices == [1..MaxDepth -> {"visible", "display", "visibility", "opacity"}]

\* a page whose only trigger is visible
DirectPage ==
    Page([chat |-> FALSE, hide2 |-> "visible", aria3 |-> ARIA_LABEL_TRANSCRIPT_BUTTON,
          hide3 |-> "visible", tag4 |-> TagDiv, aria4 |-> Null, hide4 |-> "visible",
          aria5 |-> "Share", hide5 |-> "visible", text6 |-> TextLess,
          hide6 |-> "visible", text7 |-> TextLess])

UrlOK == Url(FALSE, TRUE, "www.youtube.com", TRUE, <<"i", "d">>)

Urls ==
    {UrlOK,
     Url(FALSE, TRUE, "youtube.com", TRUE, <<" ", "i", " ">>),
     Url(FALSE, TRUE, "www.youtube.com", TRUE, <<>>),
     Url(FALSE, TRUE, "www.youtube.com", TRUE, <<" ">>),
     Url(FALSE, TRUE, "www.youtube.com", FALSE, <<>>),
     Url(FALSE, TRUE, "example.com", TRUE, <<"i", "d">>),
     Url(FALSE, FALSE, "", FALSE, <<>>),
     Url(TRUE, FALSE, "", FALSE, <<>>)}

StampOK == <<"0", ":", "0", "5">>
SegOK == Segment(<<StampOK>>, <<<<"a">>>>)
SegBlank == Segment(<<StampOK>>, <<<<" ">>>>)

StampPadded == <<" ", "1", ":", "0", "2", " ">>
StampNegative == <<"-", "1", ":", "0", "0">>
Stamps == {StampOK, StampPadded, StampNegative, <<"1", ":", "x">>, <<>>}
Texts == {<<>>, <<"a">>, <<" ", "b", " ">>}

SegOther == Segment(<<StampPadded>>, <<<<" ", "b", " ">>>>)

VariedSegments ==
    {Segment(<<s>>, <<<<"a">>>>) : s \in Stamps}
    \cup {Segment(<<StampOK>>, <<t>>) : t \in Texts}
    \cup {SegOther, Segment(<<StampNegative>>, <<<<" ">>>>)}
    \cup {Segment(<<>>, <<<<"a">>>>), Segment(<<StampOK, StampOK>>, <<<<"a">>>>),
          Segment(<<StampOK>>, <<>>), Segment(<<StampOK>>, <<<<"a">>, <<"b">>>>)}

\* the families of inputs of one acquisition
GivenThrowing(d, segs, url, throws) ==
    /\ dom = d
    /\ dom0 = d
    /\ segments = segs
    /\ href = url
    /\ removeThrows = throws

Given(d, segs, url) == GivenThrowing(d, segs, url, FALSE)

\* remove() can throw only where there is a chat container to remove
AcqInputs ==
    \E c \in AcqChoices, throws \in BOOLEAN :
        /\ throws => c.chat
        /\ GivenThrowing(Page(c), <<SegOK>>, UrlOK, throws)
AsmInputs ==
    \E segs \in SeqsUpTo({SegBlank, SegOK, SegOther}, MaxEntries) :
        Given(DirectPage, segs, UrlOK)
VariedInputs == \E segs \in SeqsUpTo(VariedSegments, MaxVaried) : Given(DirectPage, segs, UrlOK)
UrlInputs == \E url \in Urls : Given(DirectPage, <<SegOK>>, url)

\* the raw transcript line objects a caller hands to reconstituteObject
RawLines ==
    {RawEntry(text, stamp, offset) :
        text \in {<<"t">>, <<" ">>},
        stamp \in {<<"0", ":", "0", "5">>, <<"1", ":", "0", "5">>, <<>>},
        offset \in {-1, 5, 65}}

\* the transcript lines of the transcripts that are flattened with their timestamps
LineChoices ==
    {RawEntry(<<"t">>, <<"0", ":", "0", "5">>, 5),
     RawEntry(<<"u", " ", "v">>, <<"1", ":", "0", "5">>, 65)}

LabelArgs == {"", ARIA_LABEL_TRANSCRIPT_BUTTON, "Share"}
TimeLabels == SeqsUpTo({"0", "1", "2", "3", ":"}, MaxLabelLen)
\* labels with letters and signs among the digits
OddLabels == SeqsUpTo({"1", "2", "a", "b", "-", ":"}, MaxOddLabelLen)

----------------------------------------------------------------------------
(* The specifications *)

\* the application, from its start to the end of the acquisition
Init ==
    /\ AcqInputs \/ AsmInputs \/ VariedInputs \/ UrlInputs
    /\ pc = "idle"
    /\ log = <<>>
    /\ result = Pending
    /\ pageChanges = 0
    /\ appPc = "start"
    /\ inputValue = <<>>
    /\ dialog = "none"
    /\ appError = ""
    /\ call = NoCall
    /\ SchedInit
    /\ ExtInit

Next ==
    \/ AppStart
    \/ AppCapabilities
    \/ TryDirect
    \/ ChatSettled
    \/ ExpandSettled
    \/ TranscriptSettled
    \/ PageChange
    \/ AppResume

Spec == Init /\ [][Next]_vars

\* the place of a stage in the order of the acquisition
Rank(p) ==
    CASE p = "idle" -> 0
      [] p = "called" -> 1
      [] p = "waitChat" -> 2
      [] p = "waitExpand" -> 3
      [] p = "waitTranscript" -> 4
      [] p = "done" -> 5

\* the acquisition goes on from the stage it is at: one of TryDirect, ChatSettled,
\* ExpandSettled and TranscriptSettled
Continue ==
    /\ pc \in {"called", "waitChat", "waitExpand", "waitTranscript"}
    /\ pc' \in {"waitChat", "waitExpand", "waitTranscript", "done"}
    /\ Rank(pc') > Rank(pc)

\* lines 589-606: every timer of waitForAWhile fires, and a continuation that is
\* ready runs
SpecFair == Spec /\ WF_pc(Continue)

\* the popup: initialization, the acquisition on a page with a visible trigger,
\* and the summarizations the user's events start
InitApp ==
    /\ Given(DirectPage, <<SegOK>>, UrlOK)
    /\ pc = "idle"
    /\ log = <<>>
    /\ result = Pending
    /\ pageChanges = 0
    /\ appPc = "start"
    /\ inputValue = <<>>
    /\ dialog = "none"
    /\ appError = ""
    /\ call = NoCall
    /\ SchedInit
    /\ ExtInit

NextApp ==
    \/ AppStart
    \/ AppCapabilities
    \/ TryDirect
    \/ TranscriptSettled
    \/ AppResume
    \/ ChangeEvent
    \/ InputEvent
    \/ TimerFires
    \/ RunCapabilities
    \/ RunCreate
    \/ RunReady
    \/ RunSummarize

SpecApp == InitApp /\ [][NextApp]_vars

\* the popup when the text to summarize is the long transcript
NextLong ==
    \/ AppStart
    \/ AppCapabilities
    \/ TryDirect
    \/ TranscriptSettled
    \/ AppResume
    \/ ChangeEvent
    \/ LongInputEvent
    \/ TimerFires
    \/ RunCapabilities
    \/ RunCreate
    \/ RunReady
    \/ RunSummarize

SpecLong == InitApp /\ [][NextLong]_vars

\* the library functions called directly on drawn inputs
InitLib ==
    /\ \/ \E c \in LocatorChoices, labelText \in LabelArgs :
             /\ dom = Page(c)
             /\ segments = <<>>
             /\ call = CallOf("findButtonByAriaLabel", labelText)
       \/ \E timestampString \in TimeLabels \cup OddLabels :
             /\ dom = DirectPage
             /\ segments = <<>>
             /\ call = CallOf("calculateOffsetInSeconds", timestampString)
       \/ \E segs \in SeqsUpTo(VariedSegments, MaxVaried) :
             /\ dom = DirectPage
             /\ segments = segs
             /\ call = CallOf("getAllTranscriptTextAndTimes", <<>>)
       \/ \E hide \in ChainChoices, element \in 0..MaxDepth :
             /\ dom = ChainPage(hide)
             /\ segments = <<>>
             /\ call = CallOf("isElementVisible", element)
       \/ \E c \in AcqChoices :
             /\ dom = Page(c)
             /\ segments = <<>>
             /\ call = CallOf("showTranscriptDiv", <<>>)
       \/ \E lines \in SeqsUpTo(LineChoices, MaxLines) :
             /\ dom = DirectPage
             /\ segments = <<>>
             /\ call = CallOf("getConcatenatedTextWithTimestamps", lines)
       \/ \E downloadProgressCallback \in BOOLEAN :
             /\ dom = DirectPage
             /\ segments = <<>>
             /\ call = CallOf("createSummarizationSession", downloadProgressCallback)
       \/ \E rawTranscriptLineObj \in RawLines :
             /\ dom = DirectPage
             /\ segments = <<>>
             /\ call = CallOf("reconstituteObject", rawTranscriptLineObj)
    /\ dom0 = dom
    /\ href = UrlOK
    /\ removeThrows = FALSE
    /\ pc = "idle"
    /\ log = <<>>
    /\ result = Pending
    /\ pageChanges = 0
    /\ appPc = "off"
    /\ inputValue = <<>>
    /\ dialog = "none"
    /\ appError = ""
    /\ SchedInit
    /\ ExtInit

NextLib ==
    \/ CallFindButtonByAriaLabel
    \/ CallCalculateOffsetInSeconds
    \/ CallGetAllTranscriptTextAndTimes
    \/ CallIsElementVisible
    \/ CallShowTranscriptDiv
    \/ CallReconstituteObject
    \/ CallGetConcatenatedTextWithTimestamps
    \/ CallCreateSummarizationSession
    \/ RunCapabilities
    \/ RunCreate
    \/ RunReady

SpecLib == InitLib /\ [][NextLib]_vars

\* everything but the tab popup at rest
RestInit ==
    /\ Given(DirectPage, <<SegOK>>, UrlOK)
    /\ pc = "idle"
    /\ log = <<>>
    /\ result = Pending
    /\ pageChanges = 0
    /\ appPc = "start"
    /\ inputValue = <<>>
    /\ dialog = "none"
    /\ appError = ""
    /\ call = NoCall
    /\ SchedInit

\* one action button of the tab popup pressed over some checked tabs
InitAction ==
    /\ RestInit
    /\ act = ActIdle
    /\ nav = NavOff

NextAction ==
    \/ HandleAction
    \/ QueryCallback
    \/ UpdateCallback
    \/ ScriptCallback

SpecAction == InitAction /\ [][NextAction]_vars

\* the tabs of a window, activated and loaded in any order
InitTabs ==
    /\ RestInit
    /\ act = ActIdle
    /\ \E urls \in [Tabs -> TabUrls], a \in Tabs :
         nav = [NavOff EXCEPT !.url = urls, !.active = a]

NextTabs ==
    \/ TabActivated
    \/ LookupResolved
    \/ TabUpdated

SpecTabs == InitTabs /\ [][NextTabs]_vars

----------------------------------------------------------------------------
(* What the claims speak of, stated on the page and on the history *)

\* the k-th ancestor of a node (the node itself for k = 0)
RECURSIVE Up(_, _, _)
Up(d, n, k) == IF k = 0 \/ n = NoNode THEN n ELSE Up(d, d[n].parent, k - 1)

SelfAndAncestors(d, n) == {Up(d, n, k) : k \in 0..Cardinality(Nodes)} \ {NoNode}

Attached(d, n) == \A a \in SelfAndAncestors(d, n) : d[a].attached

Shown(d, n) ==
    \A a \in SelfAndAncestors(d, n) :
        d[a].display # "none" /\ d[a].visibility # "hidden" /\ d[a].opacity # "0"

\* the visible buttons that carry exactly the label
VisibleButtons(d, label) ==
    {n \in Nodes : Attached(d, n) /\ d[n].tag = TagButton /\ d[n].aria = label
                    /\ Shown(d, n)}

\* the buttons that carry the label and are hidden, by their own style or an ancestor's
HiddenButtons(d, label) ==
    {n \in Nodes : Attached(d, n) /\ d[n].tag = TagButton /\ d[n].aria = label
                    /\ ~Shown(d, n)}

\* the visible expand controls with the exact label
VisibleExpandControls(d) ==
    {n \in Nodes : Attached(d, n) /\ d[n].tag = TagExpand /\ Trim(d[n].text) = TextMore
                    /\ Shown(d, n)}

ChatContainerPresent(d) == \E n \in Nodes : Attached(d, n) /\ d[n].id = IdChat

\* the places of the history where the operation was performed
Ops(op) == {i \in 1..Len(log) : log[i].op = op}
Did(op) == Ops(op) # {}

\* the locate attempts that returned absent
AbsentLocates == {i \in Ops("locate") : log[i].arg = NoNode}

\* no node removed, no style changed, nothing clicked by the acquisition
NoSideEffect ==
    /\ \A i \in Ops("removeChat") : log[i].arg = 0
    /\ ~Did("showTranscriptDiv")
    /\ ~Did("clickExpand")
    /\ ~Did("clickTrigger")
    /\ dom = dom0

\* the acquisition has ended
Ended == pc = "done"

----------------------------------------------------------------------------
(* C1: findButtonByAriaLabel, for a non-empty label: raises the ambiguity   *)
(* error when two or more visible buttons carry exactly the label, returns  *)
(* absent when none does, returns that button when exactly one does; hidden *)
(* buttons (own style or an ancestor's) never count.                        *)

FindButtonReturned ==
    /\ call.fn = "findButtonByAriaLabel"
    /\ call.ret # Pending
    /\ call.arg # ""

C1_FindButtonByCount ==
    FindButtonReturned =>
        LET matches == VisibleButtons(dom, call.arg)
        IN /\ Cardinality(matches) >= 2 =>
                call.ret = Throw("findButtonByAriaLabel: more than one")
           /\ Cardinality(matches) = 0 => call.ret = Return(NoNode)
           /\ Cardinality(matches) = 1 =>
                call.ret.kind = "return" /\ call.ret.value \in matches

\* one visible match is returned although another button with the label is hidden
\* by an ancestor only
C1_Witness ==
    /\ FindButtonReturned
    /\ Cardinality(VisibleButtons(dom, call.arg)) = 1
    /\ \E n \in HiddenButtons(dom, call.arg) : ~StyleHides(dom[n])
    /\ call.ret.kind = "return"

----------------------------------------------------------------------------
(* C2: scenario C.  The page has no visible trigger, no chat container and  *)
(* no visible expand control when the acquisition is called.                *)

ScenarioC ==
    /\ VisibleButtons(dom0, ARIA_LABEL_TRANSCRIPT_BUTTON) = {}
    /\ ~ChatContainerPresent(dom0)
    /\ VisibleExpandControls(dom0) = {}

\* C2 as claimed: the acquisition ends in NotFound (returns absent) without
\* raising and without any fallback side effect
C2_ScenarioCReturnsAbsent ==
    ScenarioC /\ Ended => result.kind = "null" /\ NoSideEffect

\* C2 as amended: on the scenario C page the acquisition never waits, raises the
\* no-expando-buttons error instead of returning absent, and has no side effect
C2_ScenarioCRaises ==
    ScenarioC /\ pc \notin {"idle", "called"} =>
        /\ Ended
        /\ result = Throw("getTranscript_async: no expando buttons")
        /\ NoSideEffect
        /\ Cardinality(AbsentLocates) = 2

C2_Witness == ScenarioC /\ Ended /\ dom0[6].text = TextMore

----------------------------------------------------------------------------
(* C3: when neither TryDirect nor TryAfterChatRemoval located the trigger   *)
(* and no visible expand control with the exact label exists, the           *)
(* acquisition raises: no force show, no trigger click, no transcript.      *)

\* the expando stage has just run on the page as it is now: two locates, both
\* absent, and no change of the page since the second
ExpandStageJustRan ==
    /\ Cardinality(Ops("locate")) = 2
    /\ Cardinality(AbsentLocates) = 2
    /\ \A i \in Ops("pageChange") : \E j \in Ops("locate") :
          j > i /\ \A k \in Ops("locate") : k <= j

C3_NoExpandControlIsFatal ==
    ExpandStageJustRan /\ VisibleExpandControls(dom) = {} =>
        /\ Ended
        /\ result.kind = "throw"
        /\ ~Did("clickExpand")
        /\ ~Did("clickTrigger")
        /\ ~Did("parse")
        /\ \A i \in Ops("showTranscriptDiv") : \E j \in Ops("locate") : j > i

\* the chat container was removed, the page changed meanwhile, and still neither
\* the trigger nor an expand control is visible
C3_Witness ==
    /\ ExpandStageJustRan
    /\ VisibleExpandControls(dom) = {}
    /\ Ended
    /\ Did("removeChat") /\ Did("pageChange")

----------------------------------------------------------------------------
(* C4: when the trigger is still absent after every fallback, the           *)
(* acquisition returns the absent result without raising, never clicks the  *)
(* trigger, never runs the parser and constructs no transcript.             *)

AbsentAfterAllFallbacks ==
    /\ Cardinality(AbsentLocates) = 4
    /\ Did("clickExpand")
    /\ \E i \in Ops("showTranscriptDiv") : \E j \in AbsentLocates : j > i

C4_AllFallbacksExhausted ==
    AbsentAfterAllFallbacks =>
        /\ Ended
        /\ result.kind = "null"
        /\ result.value = NoNode
        /\ ~Did("clickTrigger")
        /\ ~Did("parse")
        /\ VisibleButtons(dom, ARIA_LABEL_TRANSCRIPT_BUTTON) = {}

C4_Witness == AbsentAfterAllFallbacks /\ Ended /\ Did("removeChat") /\ dom # dom0

----------------------------------------------------------------------------
(* C5: when getTranscript_async returns absent, initializeApplication       *)
(* completes without raising and writes no transcript text into the input.  *)

C5_AbsentIsHandled ==
    result.kind = "null" /\ appPc # "acquiring" =>
        appPc = "returned" /\ appError = "" /\ inputValue = <<>>

----------------------------------------------------------------------------
(* The transcript panel and the URL, as the assembly claims speak of them *)

\* a text made of white space only (the empty text included)
Blank(t) == \A i \in 1..Len(t) : t[i] \in {" ", "\n"}

\* k >= 1 groups of decimal digits separated by colons
DigitGroups(s) ==
    /\ s # <<>>
    /\ \A i \in 1..Len(s) : s[i] = ":" \/ IsDigit(s[i])
    /\ s[1] # ":" /\ s[Len(s)] # ":"
    /\ \A i \in 1..(Len(s) - 1) : ~(s[i] = ":" /\ s[i + 1] = ":")

\* the positional base-60 value of a label of digit groups, read left to right
RECURSIVE PositionalValue(_, _, _)
PositionalValue(s, total, group) ==
    IF s = <<>> THEN total * 60 + group
    ELSE IF Head(s) = ":" THEN PositionalValue(Tail(s), total * 60 + group, 0)
    ELSE PositionalValue(Tail(s), total, group * 10 + DigitValue(Head(s)))

\* every entry element has one timestamp, a valid one, and one text
WellFormedPanel ==
    \A i \in 1..Len(segments) :
        /\ Len(segments[i].stamps) = 1
        /\ Len(segments[i].texts) = 1
        /\ DigitGroups(Trim(segments[i].stamps[1]))

VideoIdPresent ==
    /\ ~href.empty /\ href.wellFormed
    /\ href.hostname \in {"www.youtube.com", "youtube.com"}
    /\ href.hasV /\ ~Blank(href.v)

\* the panel holds k consecutive entries with white-space-only text
HasBlankRun(k) ==
    \E i \in 1..(Len(segments) - k + 1) :
        \A j \in i..(i + k - 1) :
            Len(segments[j].texts) = 1 /\ Blank(segments[j].texts[1])

\* the assembly loop ran on valid timestamps and has ended
AssemblyEnded == Ended /\ Did("parse") /\ WellFormedPanel /\ VideoIdPresent

TooManyEmptyLines == Throw("getTranscript_async: too many contiguous empty lines")

----------------------------------------------------------------------------
(* C6: on a raw entry sequence with valid timestamps the assembly raises    *)
(* the too-many-empty-lines error if and only if the sequence has a run of  *)
(* 6 or more consecutive white-space-only texts; 5 do not raise it, and a   *)
(* non-empty entry resets the count.                                        *)

C6_TooManyEmptyLinesIffRunOfSix ==
    AssemblyEnded =>
        (result = TooManyEmptyLines
            <=> HasBlankRun(MAX_EMPTY_CONTIGUOUS_TRANSCRIPT_LINES + 1))

\* a run of exactly 5 empty texts, a non-empty entry, one more empty text: more
\* than 5 empty texts in all, and a transcript is returned
C6_Witness ==
    /\ AssemblyEnded
    /\ HasBlankRun(MAX_EMPTY_CONTIGUOUS_TRANSCRIPT_LINES)
    /\ Cardinality({i \in 1..Len(segments) : Blank(segments[i].texts[1])})
            > MAX_EMPTY_CONTIGUOUS_TRANSCRIPT_LINES
    /\ result.kind = "transcript"

----------------------------------------------------------------------------
(* C7: a transcript handed to the caller has at least one line: with zero   *)
(* lines appended the acquisition fails instead of returning a transcript.  *)

C7_ReturnedTranscriptHasALine ==
    result.kind = "transcript" => Len(result.value.aryTranscriptLineObjs) >= 1

----------------------------------------------------------------------------
(* C8: when assembly succeeds the transcript's lines are exactly the raw    *)
(* entries whose trimmed text is non-empty, in source order, each with the  *)
(* text, timestamp label and offset of its raw entry.                       *)

\* the raw entries the parser gave
RawEntries == getAllTranscriptTextAndTimes(segments).value

NonEmptyEntry(e) == ~Blank(e.transcriptText)

C8_LinesAreTheNonEmptyEntries ==
    result.kind = "transcript" =>
        result.value.aryTranscriptLineObjs = SelectSeq(RawEntries, NonEmptyEntry)

\* two different non-empty entries around an empty one
C8_Witness ==
    /\ result.kind = "transcript"
    /\ Len(segments) = 3
    /\ Blank(segments[2].texts[1])
    /\ Len(result.value.aryTranscriptLineObjs) = 2
    /\ result.value.aryTranscriptLineObjs[1] # result.value.aryTranscriptLineObjs[2]

----------------------------------------------------------------------------
(* C9: a returned transcript has a non-empty videoId and only valid lines   *)
(* (non-empty trimmed text, non-empty timestamp label, offset a natural     *)
(* number); an empty videoId, or a non-empty entry with a negative parsed   *)
(* offset, makes the acquisition raise.                                     *)

\* an entry with non-empty text whose timestamp parses to a negative offset
NegativeOffsetEntry(g) ==
    /\ Len(g.stamps) = 1 /\ Len(g.texts) = 1
    /\ ~Blank(g.texts[1])
    /\ calculateOffsetInSeconds(Trim(g.stamps[1])).kind = "return"
    /\ calculateOffsetInSeconds(Trim(g.stamps[1])).value < 0

ValidLine(l) ==
    /\ ~Blank(l.transcriptText)
    /\ l.transcriptText = Trim(l.transcriptText)
    /\ ~Blank(l.timestampString)
    /\ l.offsetInSeconds \in Nat

C9_ReturnedTranscriptIsValid ==
    /\ result.kind = "transcript" =>
          /\ ~Blank(result.value.idOfVideo)
          /\ \A i \in 1..Len(result.value.aryTranscriptLineObjs) :
                ValidLine(result.value.aryTranscriptLineObjs[i])
    /\ Ended /\ Did("parse")
          /\ (~VideoIdPresent \/ \E i \in 1..Len(segments) : NegativeOffsetEntry(segments[i]))
          => result.kind = "throw"

\* the negative offset of a non-empty entry was refused by the line constructor
C9_Witness ==
    /\ Ended
    /\ \E i \in 1..Len(segments) : NegativeOffsetEntry(segments[i])
    /\ result = Throw("TranscriptLine: offsetInSeconds")

----------------------------------------------------------------------------
(* C10: calculateOffsetInSeconds, on a label of k >= 1 colon-separated      *)
(* groups of decimal digits, returns the positional base-60 value, most     *)
(* significant group first: 1:02:03 gives 3723 and 02:03 gives 123.         *)

OffsetReturned == call.fn = "calculateOffsetInSeconds" /\ call.ret # Pending

C10_OffsetIsPositionalValue ==
    OffsetReturned =>
        /\ DigitGroups(call.arg) => call.ret = Return(PositionalValue(call.arg, 0, 0))
        /\ call.arg = <<"1", ":", "0", "2", ":", "0", "3">> => call.ret = Return(3723)
        /\ call.arg = <<"0", "2", ":", "0", "3">> => call.ret = Return(123)

C10_Witness ==
    /\ OffsetReturned
    /\ call.arg = <<"1", ":", "0", "2", ":", "0", "3">>
    /\ call.ret = Return(3723)

----------------------------------------------------------------------------
(* C11: the timestamp parse raises whenever a colon-separated segment of    *)
(* the label is not made only of decimal digits (an empty segment, digits   *)
(* followed by other characters such as 12ab, a signed segment); no such    *)
(* label yields an offset.                                                  *)

C11_NonNumericSegmentRaises ==
    OffsetReturned /\ ~DigitGroups(call.arg) => call.ret.kind = "throw"

----------------------------------------------------------------------------
(* C12: getAllTranscriptTextAndTimes.  An entry element with zero or more   *)
(* than one timestamp sub-element, or zero or more than one text            *)
(* sub-element, makes the whole parse raise, the entries before it are not  *)
(* returned either.                                                         *)

ParserReturned == call.fn = "getAllTranscriptTextAndTimes" /\ call.ret # Pending

Malformed(g) == Len(g.stamps) # 1 \/ Len(g.texts) # 1

\* the timestamp label of a well-formed element gives an offset
LabelParses(g) == calculateOffsetInSeconds(Trim(g.stamps[1])).kind = "return"

\* one raw entry per entry element, in document order, with its trimmed text and label
OneEntryPerElement(entries) ==
    /\ Len(entries) = Len(segments)
    /\ \A i \in 1..Len(segments) :
          /\ entries[i].transcriptText = Trim(segments[i].texts[1])
          /\ entries[i].timestampString = Trim(segments[i].stamps[1])
          /\ Return(entries[i].offsetInSeconds)
                = calculateOffsetInSeconds(entries[i].timestampString)

\* C12 as claimed: the structure of the elements alone decides; without a malformed
\* element one raw entry per element is returned
C12_StructureAloneDecides ==
    ParserReturned =>
        IF \E i \in 1..Len(segments) : Malformed(segments[i])
        THEN call.ret.kind = "throw"
        ELSE call.ret.kind = "return" /\ OneEntryPerElement(call.ret.value)

\* C12 as amended: a malformed element makes the parse raise; so does, among
\* well-formed elements, a timestamp label that gives no offset; otherwise one raw
\* entry per element is returned, in document order
C12_ParseIsAllOrNothing ==
    ParserReturned =>
        IF \E i \in 1..Len(segments) : Malformed(segments[i])
        THEN call.ret.kind = "throw"
        ELSE IF \E i \in 1..Len(segments) : ~LabelParses(segments[i])
        THEN call.ret = Throw("calculateOffsetInSeconds: invalid timestamp")
        ELSE call.ret.kind = "return" /\ OneEntryPerElement(call.ret.value)

\* a well-formed element followed by a malformed one: nothing is returned
C12_Witness ==
    /\ ParserReturned
    /\ Len(segments) = 2
    /\ ~Malformed(segments[1]) /\ LabelParses(segments[1])
    /\ Malformed(segments[2])
    /\ call.ret.kind = "throw"

----------------------------------------------------------------------------
(* C13: isElementVisible returns true if and only if neither the element    *)
(* nor any of its ancestors has display none, visibility hidden or opacity  *)
(* 0; it returns false for an absent element and never raises.              *)

VisibilityReturned == call.fn = "isElementVisible" /\ call.ret # Pending

C13_VisibleIffNothingHides ==
    VisibilityReturned =>
        /\ call.ret.kind = "return"
        /\ call.ret.value = (call.arg # NoNode /\ Shown(dom, call.arg))

\* the element and its parent are not hidden, the parent's parent is
C13_Witness ==
    /\ VisibilityReturned
    /\ call.arg = 3
    /\ ~StyleHides(dom[3]) /\ ~StyleHides(dom[2]) /\ StyleHides(dom[1])
    /\ call.ret = Return(FALSE)

----------------------------------------------------------------------------
(* C14: whenever the acquisition reaches Found the trigger is clicked       *)
(* exactly once, exactly one settle wait follows the click, and the panel   *)
(* is parsed only after that wait has completed; the parser never runs on a *)
(* path on which the trigger was not clicked.                               *)

\* the locates that found the trigger
FoundLocates == {i \in Ops("locate") : log[i].arg # NoNode}

C14_ClickWaitThenParse ==
    /\ FoundLocates # {} =>
          \E f \in FoundLocates :
              /\ Ops("clickTrigger") = {f + 1}
              /\ log[f + 1].arg = log[f].arg
              /\ {i \in Ops("wait") : i > f} = {f + 2}
              /\ Ops("parse") \subseteq {f + 3}
    /\ pc = "waitTranscript" => ~Did("parse")
    /\ Did("parse") => Did("clickTrigger") /\ pc = "done"
    /\ Did("clickTrigger") => FoundLocates # {}

\* the trigger was found by the last resort, clicked, and the panel parsed
C14_Witness ==
    /\ Cardinality(AbsentLocates) = 3
    /\ FoundLocates # {}
    /\ Did("parse")
    /\ result.kind = "transcript"

----------------------------------------------------------------------------
(* The runs, as the scheduler claims speak of them *)

Runs == DOMAIN runs
InFlight == {r \in Runs : runs[r].pc = "summarize"}
Over(r) == runs[r].pc \in {"ended", "rejected"}
Failed(r) == runs[r].pc = "rejected"

----------------------------------------------------------------------------
(* C15: at any time at most one summarize call is in flight: a run started  *)
(* by the debounce timer never begins while an earlier run's summarize call *)
(* has not completed.                                                       *)

C15_OneSummarizeInFlight ==
    /\ Cardinality(InFlight) <= 1
    /\ \A r \in Runs : InFlight \ {r} # {} => Over(r)

----------------------------------------------------------------------------
(* C16: at most one debounce timer is pending; an event that arrives while  *)
(* a timer is pending cancels it, so that the cancelled timer's run never   *)
(* starts; a burst of events, each before the previous timer fires, starts  *)
(* one run, after the last event.                                           *)

C16_Debounce ==
    /\ Cardinality(timers) <= 1
    /\ \A r \in Runs : runs[r].events = r
    /\ scheduled > 0 => scheduled \in timers \cup Runs

\* a burst of two events: only the second timer started a run
C16_Witness ==
    /\ scheduled = 2
    /\ Runs = {2}
    /\ timers = {}

----------------------------------------------------------------------------
(* C17: if creating the session or the summarize call fails during a run,   *)
(* the previously displayed summary is left untouched: after the failed run *)
(* the output is neither cleared nor left showing the placeholder in place  *)
(* of the previous summary.                                                 *)

\* every run is over, the last one failed, and an earlier one displayed its summary
FailedAfterSummary ==
    /\ timers = {}
    /\ \A r \in Runs : Over(r)
    /\ \E r \in Runs :
          /\ Failed(r)
          /\ \A q \in Runs \ {r} : q < r /\ runs[q].pc = "ended"
          /\ Runs # {r}

C17_FailedRunKeepsSummary ==
    FailedAfterSummary => output.kind = "summary"

----------------------------------------------------------------------------
(* C18: every summarization session created by a run is destroyed exactly   *)
(* once by the time the run ends, whether its summarize call succeeds or    *)
(* fails.                                                                   *)

C18_SessionDestroyedAtRunEnd ==
    \A r \in Runs :
        Over(r) /\ runs[r].session # "none" =>
            runs[r].session = "destroyed" /\ runs[r].destroys = 1

----------------------------------------------------------------------------
(* C19: if at initialization the summarizer API is absent or the probe says *)
(* 'no', a blocking notice is shown and no debounce timer is scheduled, no  *)
(* session created, no summarize call issued and no acquisition started;    *)
(* createSummarizationSession raises without creating a session whenever    *)
(* the probe says 'no'.                                                     *)

\* initializeApplication returned before it called getTranscript_async
StoppedAtStart == appPc = "returned" /\ pc = "idle"

C19_UnavailableStopsEverything ==
    /\ StoppedAtStart =>
          dialog \in {"summarization-unavailable", "summarization-unsupported"}
    /\ dialog # "none" =>
          /\ StoppedAtStart
          /\ ~listening
          /\ scheduled = 0 /\ timers = {} /\ Runs = {}
          /\ log = <<>> /\ result = Pending
    /\ \A r \in Runs :
          runs[r].available = "no" => Failed(r) /\ runs[r].session = "none"

C19_Witness == StoppedAtStart /\ dialog = "summarization-unsupported"

----------------------------------------------------------------------------
(* C20: for every non-empty input text and every positive word budget,      *)
(* every text passed to a single summarize call is non-empty and has at     *)
(* most that many words.                                                    *)

\* the number of words of a text: the maximal runs of characters that are no space
RECURSIVE WordsFrom(_, _)
WordsFrom(text, inWord) ==
    IF text = <<>> THEN 0
    ELSE IF IsSpace(Head(text)) THEN WordsFrom(Tail(text), FALSE)
    ELSE (IF inWord THEN 0 ELSE 1) + WordsFrom(Tail(text), TRUE)

WordCount(text) == WordsFrom(text, FALSE)

C20_SummarizeTextWithinBudget ==
    \A r \in InFlight, budget \in 1..MaxBudget :
        ~Blank(runs[r].input) =>
            ~Blank(runs[r].text) /\ WordCount(runs[r].text) <= budget

----------------------------------------------------------------------------
(* C21: the texts passed to the summarize calls of a run, taken in order,   *)
(* reproduce the words of the input in their order: no word is dropped,     *)
(* duplicated or reordered, also when the last segment of the input has no  *)
(* terminal '.', '!' or '?'.                                                *)

\* the words of a text, in order
RECURSIVE WordList(_, _)
WordList(text, word) ==
    IF text = <<>> THEN (IF word = <<>> THEN <<>> ELSE <<word>>)
    ELSE IF IsSpace(Head(text))
    THEN (IF word = <<>> THEN <<>> ELSE <<word>>) \o WordList(Tail(text), <<>>)
    ELSE WordList(Tail(text), Append(word, Head(text)))

Words(text) == WordList(text, <<>>)

\* the words of a sequence of texts, one text after the other
RECURSIVE WordsOfAll(_)
WordsOfAll(texts) ==
    IF texts = <<>> THEN <<>> ELSE Words(Head(texts)) \o WordsOfAll(Tail(texts))

\* the runs that have called summarize
Summarizing == {r \in Runs : runs[r].calls # <<>>}

----------------------------------------------------------------------------
(* C22: scenario A: the text 'Hello world. This is a test.' is summarized   *)
(* as the chunk sequence 'Hello world.', 'This is', 'a test.' (budget of 3  *)
(* words per chunk).                                                        *)

ScenarioAChunks ==
    << <<"H", "e", "l", "l", "o", " ", "w", "o", "r", "l", "d", ".">>,
       <<"T", "h", "i", "s", " ", "i", "s">>,
       <<"a", " ", "t", "e", "s", "t", ".">> >>

\* the runs that ended after summarizing the given input
EndedOn(text) == {r \in Runs : runs[r].pc = "ended" /\ runs[r].input = text}

C22_ScenarioAChunks ==
    \A r \in EndedOn(ScenarioAText) : runs[r].calls = ScenarioAChunks

----------------------------------------------------------------------------
(* C23: scenario B: a transcript of 1500 words (budget 700) is split into   *)
(* exactly 3 chunks, each summarized by its own summarize call in chunk     *)
(* order, and the 3 summaries together are summarized once more: the run    *)
(* makes four summarize calls, the first three each on a part of the text.  *)

C23_ScenarioBCalls ==
    \A r \in EndedOn(ScenarioBText) :
        /\ Len(runs[r].calls) = 4
        /\ \A i \in 1..3 :
              /\ runs[r].calls[i] # <<>>
              /\ Len(runs[r].calls[i]) < Len(ScenarioBText)

----------------------------------------------------------------------------
(* C24: a run makes exactly one reduction pass when its first pass has a    *)
(* single chunk and exactly two when it has more than one chunk, never a    *)
(* third. A text within the budget is one chunk, summarized by one call; a  *)
(* text over the budget is at least two chunks, so that its run makes their *)
(* calls and then those of a second pass: three calls or more.              *)

C24_PassesFollowChunks ==
    \A r \in Runs, budget \in 1..MaxBudget :
        runs[r].pc = "ended" /\ ~Blank(runs[r].input) =>
            IF WordCount(runs[r].input) <= budget
            THEN Len(runs[r].calls) = 1
            ELSE Len(runs[r].calls) >= 3

----------------------------------------------------------------------------
(* C25: if a summarize call of a run fails, the run makes no later          *)
(* summarize call, the failure leaves the run's callback as its rejection,  *)
(* and no summary is displayed as the result of that run.                   *)

\* the runs whose summarize call failed
FailedSummarizing == {r \in Summarizing : runs[r].pc \notin {"summarize", "ended"}}

----------------------------------------------------------------------------
(* C26: the side effects of each fallback occur only if every earlier       *)
(* locate returned absent: the chat container is removed after one absent   *)
(* locate, the expand controls are clicked after two, the last-resort force *)
(* show is made after three.  So a trigger found by the first locate is     *)
(* clicked with no removal, no display change and no expand click before,   *)
(* and one found by the locate after the chat removal with no expand click  *)
(* and no last-resort force show.                                           *)

\* the locates made before place i of the history
LocatesBefore(i) == {j \in 1..(i - 1) : log[j].op \in {"locate", "locateThrow"}}

\* k locates were made before place i of the history and all returned absent
AfterAbsentLocates(i, k) ==
    /\ Cardinality(LocatesBefore(i)) = k
    /\ LocatesBefore(i) \subseteq AbsentLocates

\* the force show that follows the removal of the chat container
ChatStageShows == {i \in Ops("showTranscriptDiv") : i > 1 /\ log[i - 1].op = "removeChat"}

C26_FallbacksOnlyAfterAbsent ==
    /\ \A i \in Ops("removeChat") : AfterAbsentLocates(i, 1)
    /\ \A i \in ChatStageShows : AfterAbsentLocates(i, 1) /\ log[i - 1].arg = 1
    /\ \A i \in Ops("findExpand") \cup Ops("clickExpand") : AfterAbsentLocates(i, 2)
    /\ \A i \in Ops("showTranscriptDiv") \ ChatStageShows :
          AfterAbsentLocates(i, 3) /\ Did("clickExpand")
    /\ \A i \in Ops("clickTrigger") :
          /\ LocatesBefore(i) \ AbsentLocates = {i - 1}
          /\ log[i - 1] = Ev("locate", log[i].arg)

\* the locate after the removal of the chat container found the trigger, which was
\* clicked, on a page that has a visible expand control
C26_Witness ==
    /\ \E i \in Ops("removeChat") : log[i].arg = 1
    /\ \E f \in FoundLocates : Cardinality(LocatesBefore(f)) = 1
    /\ Did("clickTrigger")
    /\ VisibleExpandControls(dom) # {}
    /\ ~Did("clickExpand")

----------------------------------------------------------------------------
(* C27: if two or more visible buttons carry the trigger label at a locate, *)
(* the acquisition raises the ambiguity error and clicks no button with     *)
(* that label; the trigger is clicked only when the most recent locate      *)
(* found exactly one visible match, the page being at the click as it was   *)
(* at that locate.                                                          *)

Triggers(d) == VisibleButtons(d, ARIA_LABEL_TRANSCRIPT_BUTTON)

\* a step of the acquisition that begins with a locate on the page as it is
LocateStep == pc \in {"called", "waitChat", "waitExpand"} /\ pc' # pc

\* the places of the trigger clicks made by the step
NewClicks == {i \in 1..Len(log') : i > Len(log) /\ log'[i].op = "clickTrigger"}

C27_AmbiguityStep ==
    /\ LocateStep /\ (Cardinality(Triggers(dom)) >= 2
                       \/ (pc = "waitExpand" /\ Cardinality(Triggers(dom')) >= 2)) =>
          /\ pc' = "done"
          /\ result' = Throw("findButtonByAriaLabel: more than one")
          /\ \A i \in 1..Len(log') : log'[i].op # "clickTrigger"
    /\ \A i \in NewClicks :
          /\ i > 1
          /\ log'[i - 1] = Ev("locate", log'[i].arg)
          /\ Triggers(dom') = {log'[i].arg}

C27_AmbiguityRaisesNoClick == [][C27_AmbiguityStep]_vars

\* the locate after the removal of the chat container met two visible buttons with
\* the trigger label and raised
C27_Witness ==
    /\ \E i \in Ops("removeChat") : log[i].arg = 1
    /\ log # <<>> /\ log[Len(log)].op = "locateThrow"
    /\ Cardinality(Triggers(dom)) >= 2
    /\ result = Throw("findButtonByAriaLabel: more than one")
    /\ ~Did("clickTrigger")

----------------------------------------------------------------------------
(* C28: every acquisition, its settle timers firing, ends with a            *)
(* transcript, with the absent result or with an error, after at most 4     *)
(* locates, 3 settle waits, one removal of the chat container, 2 force      *)
(* shows and one click per expand control; it passes its stages in their    *)
(* fixed order and comes back to none.                                      *)

C28_Resources ==
    /\ Cardinality(Ops("locate") \cup Ops("locateThrow")) <= 4
    /\ Cardinality(Ops("wait")) <= 3
    /\ Cardinality(Ops("removeChat")) <= 1
    /\ Cardinality(Ops("showTranscriptDiv")) <= 2
    /\ \A n \in Nodes : Cardinality({i \in Ops("clickExpand") : log[i].arg = n}) <= 1
    /\ Ended => result.kind \in {"transcript", "null", "throw"}
    /\ ~Ended => result = Pending

C28_BoundedAndTerminates ==
    /\ []C28_Resources
    /\ [][Rank(pc') >= Rank(pc)]_vars
    /\ (pc = "called") ~> Ended

\* an acquisition that ended with a transcript after three settle waits
C28_Witness ==
    /\ Ended
    /\ result.kind = "transcript"
    /\ Cardinality(Ops("wait")) = 3
    /\ Cardinality(Ops("locate")) = 3
    /\ Did("clickExpand")

----------------------------------------------------------------------------
(* C29: the absent result is returned only after all four locates were made *)
(* and returned absent, never after fewer; on that path at least one        *)
(* visible expand control existed and every visible expand control was      *)
(* clicked.                                                                 *)

\* the expand controls the acquisition clicked
ClickedExpandControls == {log[i].arg : i \in Ops("clickExpand")}

\* the expando buttons were clicked and the page is as it was then
ExpandClicksJustMade ==
    /\ pc = "waitExpand"
    /\ log[Len(log)].op = "wait"

C29_AbsentOnlyAfterFourLocates ==
    /\ result.kind = "null" =>
          /\ Ended
          /\ Cardinality(AbsentLocates) = 4
          /\ Ops("locate") = AbsentLocates /\ ~Did("locateThrow")
          /\ ClickedExpandControls # {}
          /\ \E i \in Ops("findExpand") : log[i].arg = Cardinality(ClickedExpandControls)
    /\ ExpandClicksJustMade =>
          /\ VisibleExpandControls(dom) # {}
          /\ ClickedExpandControls = VisibleExpandControls(dom)

\* absent is returned on a page where two expand controls were clicked, after a
\* change of the page during a wait
C29_Witness ==
    /\ result.kind = "null"
    /\ Cardinality(ClickedExpandControls) = 2
    /\ Did("pageChange")

----------------------------------------------------------------------------
(* C30: after the first locate returned absent, the transcript container is *)
(* force-displayed and the settle wait made if and only if a chat container *)
(* existed and was removed; a failure of the removal is not fatal; in both  *)
(* cases the retry locate is made before the expando stage is entered.      *)

\* the chat container was removed: place i of the history says so
Removed(i) == log[i].arg = 1

\* a locate made after place i of the history
LocateAfter(i) == \E j \in Ops("locate") \cup Ops("locateThrow") : j > i

----------------------------------------------------------------------------
(* C31: showTranscriptDiv sets display to 'block' on exactly the engagement *)
(* panels whose subtree holds an element whose aria-label is 'show          *)
(* transcript' in any case, leaves every other element as it was, removes   *)
(* and adds no node, and returns the number of panels changed, absent (0    *)
(* in the model) when there is none.                                        *)

ShowTranscriptDivReturned == call.fn = "showTranscriptDiv" /\ call.ret # Pending

\* the elements of the subtree of p: p and what hangs below it in the document
Subtree(d, p) ==
    {m \in Nodes : p \in SelfAndAncestors(d, m)
                    /\ \A a \in SelfAndAncestors(d, m) \ SelfAndAncestors(d, p) :
                          d[a].attached}

LabelledShowTranscript(d, m) ==
    d[m].aria \in {"show transcript", "Show transcript", "SHOW TRANSCRIPT"}

\* the engagement panels of the document whose subtree holds the label
PanelsWithTrigger(d) ==
    {p \in Nodes : Attached(d, p) /\ d[p].tag = TagPanel
                    /\ \E m \in Subtree(d, p) : LabelledShowTranscript(d, m)}

C31_ShowsExactlyThePanelsWithTrigger ==
    ShowTranscriptDivReturned =>
        /\ \A n \in Nodes :
              dom[n] = IF n \in PanelsWithTrigger(dom0)
                       THEN [dom0[n] EXCEPT !.display = "block"]
                       ELSE dom0[n]
        /\ call.ret = Return(Cardinality(PanelsWithTrigger(dom0)))

\* of two engagement panels, one hidden, only the one that holds the label in
\* capitals was shown
C31_Witness ==
    /\ ShowTranscriptDivReturned
    /\ call.ret = Return(1)
    /\ dom # dom0
    /\ Cardinality({n \in Nodes : Attached(dom0, n) /\ dom0[n].tag = TagPanel}) = 2
    /\ \E n \in Nodes : dom0[n].aria = "SHOW TRANSCRIPT"
    /\ \E n \in Nodes : dom[n].tag = TagPanel /\ dom[n].display = "none"

----------------------------------------------------------------------------
(* C32: every transcript line that exists, built by the acquisition or      *)
(* reconstituted from a raw object, has an offset equal to the positional   *)
(* sexagesimal value of its own timestamp label.                            *)

\* the offset of the line is what its label says
OffsetMatchesLabel(l) ==
    /\ DigitGroups(l.timestampString)
    /\ l.offsetInSeconds = PositionalValue(l.timestampString, 0, 0)

C32_OffsetMatchesLabel ==
    /\ result.kind = "transcript" =>
          \A i \in 1..Len(result.value.aryTranscriptLineObjs) :
              OffsetMatchesLabel(result.value.aryTranscriptLineObjs[i])
    /\ call.fn = "reconstituteObject" /\ call.ret.kind = "return" =>
          OffsetMatchesLabel(call.ret.value)

----------------------------------------------------------------------------
(* C33: getConcatenatedTextWithTimestamps returns, for the lines l1..ln,    *)
(* the timestamp, a newline, the text and a newline of each line, in order, *)
(* with no other character between or around the lines.                     *)

\* timestamp, newline, text, newline of each line, one after the other
RECURSIVE StampedLines(_)
StampedLines(lines) ==
    IF lines = <<>> THEN <<>>
    ELSE Head(lines).timestampString \o <<"\n">> \o Head(lines).transcriptText
            \o <<"\n">> \o StampedLines(Tail(lines))

C33_TimestampedTextIsPlainConcatenation ==
    call.fn = "getConcatenatedTextWithTimestamps" /\ call.ret # Pending =>
        call.ret = Return(StampedLines(call.arg))

----------------------------------------------------------------------------
(* C34: when the probe reports 'after-download', createSummarizationSession *)
(* returns the session (and summarize is called on it) only after           *)
(* session.ready has resolved, and registers the download-progress listener *)
(* only then and only when a callback was supplied; when the probe reports  *)
(* available now, no listener is registered and ready is not awaited.       *)

\* createSummarizationSession has returned the session of the run
SessionReturned(r) == runs[r].pc \in {"returned", "summarize", "ended"} \/ runs[r].calls # <<>>

C34_ReadyAwaitedAfterDownload ==
    \A r \in Runs :
        /\ SessionReturned(r) /\ runs[r].available = "after-download" => runs[r].readied
        /\ runs[r].listener =>
              runs[r].available = "after-download" /\ runs[r].callback
        /\ runs[r].available = "readily" =>
              ~runs[r].listener /\ ~runs[r].readied /\ runs[r].pc # "ready"

\* a direct call with a callback, after a download: the listener was registered and
\* the session returned once ready had resolved
C34_Witness ==
    \E r \in Runs :
        /\ runs[r].pc = "returned"
        /\ runs[r].available = "after-download"
        /\ runs[r].listener /\ runs[r].readied

----------------------------------------------------------------------------
(* C35: once every started run has completed and no timer is pending, the   *)
(* displayed output is the summary of the most recently started run: a      *)
(* summary that an earlier run delivers late never overwrites it.           *)

\* the run that was started last (timer ids grow with time)
LastStarted == CHOOSE r \in Runs : \A q \in Runs : q <= r

\* every run is over, no timer is pending, and the last run produced a summary
AllOverLastSummarized ==
    /\ timers = {}
    /\ Runs # {}
    /\ \A r \in Runs : Over(r)
    /\ runs[LastStarted].pc = "ended"

C35_OutputIsOfLastRun ==
    AllOverLastSummarized => output = Summary(LastStarted)

----------------------------------------------------------------------------
(* C36: after the acquisition returned a transcript, its flattened text is  *)
(* in the input and a summarization run over it is started after the        *)
(* debounce delay, with no further event of the user: once the text is      *)
(* placed, a debounce timer is pending or a run has started.                *)

\* initializeApplication has placed the flattened transcript in the input
TranscriptPlaced == appPc = "returned" /\ result.kind = "transcript"

C36_TranscriptStartsRun ==
    TranscriptPlaced =>
        /\ inputValue = getConcatenatedTextWithoutTimestamps(result.value)
              \/ scheduled > 0
        /\ timers # {} \/ Runs # {}

-----------------------------------------------------------------------------
(* C37 *)

\* the selected tabs whose script callback has run
Processed == {t \in Tabs : act.stage[t] \in {"ok", "error"}}
\* the selected tabs whose extraction succeeded
Succeeded == {t \in Tabs : act.stage[t] = "ok"}
Range(seq) == {seq[i] : i \in 1..Len(seq)}

\* C37: for one action over a non-empty set of selected tabs without "links
\* only", in every interleaving of the callbacks: processContents is invoked
\* at most once, and it has been invoked exactly when the script callback of
\* every selected tab has run; a tab whose extraction reported an error is
\* counted as processed and has no entry; the collected contents hold one
\* entry per selected tab whose extraction succeeded and nothing else, and
\* these are the contents processContents is given.
C37_ProcessContentsOnceAfterAll ==
    (act.pc \in {"scripts", "done"} /\ ~act.onlyLinks) =>
        /\ act.selected # {}
        /\ act.processCalls <= 1
        /\ (act.processCalls = 1) <=> (Processed = act.selected)
        /\ act.processedTabs = Cardinality(Processed)
        /\ Range(act.contents) = Succeeded
        /\ Len(act.contents) = Cardinality(Succeeded)
        /\ (act.processCalls = 1) => (act.given = act.contents)

\* three tabs processed, one with an error, the other two out of tab order
C37_Witness ==
    /\ ~act.onlyLinks
    /\ act.processCalls = 1
    /\ Cardinality(act.selected) = 3
    /\ Cardinality(Processed \ Succeeded) = 1
    /\ Len(act.given) = 2
    /\ act.given[1] > act.given[2]

-----------------------------------------------------------------------------
(* C38 *)

\* every tab event has been handled and no chrome.tabs.get is outstanding
TabEventsProcessed == nav.events > 0 /\ nav.lookups = {}

\* C38: after any sequence of tab-activated and tab-update-complete events
\* has been fully processed, the lookups of the activation handler included,
\* the configured popup is the YouTube popup if and only if the URL of the
\* currently active tab contains 'youtube.com'.
C38_PopupFollowsActiveTab ==
    TabEventsProcessed =>
        ((nav.popup = "youtube-popup.html")
            <=> Includes(nav.url[nav.active], YouTubeDotCom))

=============================================================================
